---------------------------- MODULE Spec2Model ----------------------------
(***************************************************************************)
(* Frequency-curve computation engine of tstv-app                          *)
(* (src/tstv/app/services/analysis_service.py) together with the shared    *)
(* DataService it reads (src/tstv/app/services/data_service.py).           *)
(*                                                                         *)
(* Numbers.  Python floats are modelled as integers in a reduced range:    *)
(* every finite float is an integer in -FloatMax..FloatMax, results beyond *)
(* that range round to PosInf / NegInf as IEEE overflow does, and NaN is a *)
(* separate value that makes every comparison false.  Data values and     *)
(* their statistics are kept in data units; dimensionless quantities       *)
(* (shape, cv^2) are kept in fixed point with SC units per 1.              *)
(* Probabilities P(%) are kept in units of 0.01 %, so min_p = 1 and        *)
(* max_p = 9999.                                                           *)
(*                                                                         *)
(* Library calls (scipy fit / ppf / skew, the rows of the bootstrap        *)
(* workers) are not re-implemented: their result is chosen by the          *)
(* environment from the outcomes the library can deliver (raise,           *)
(* non-finite, finite).                                                    *)
(***************************************************************************)
EXTENDS Integers, Sequences, FiniteSets, TLC

VARIABLES
    data,          \* DataService.data
    main_column,   \* DataService.main_column
    pc,            \* position of the compute_frequency_curve request
    req,           \* its arguments (distribution_name, agg_func, method)
    df,            \* local df        (line 334)
    mc,            \* local main_column (line 335)
    Qmax,          \* local Qmax after aggregation and filtering
    fit,           \* outcome of the parameter estimation block
    curve,         \* theoretical curve, empirical points, statistics
    band,          \* bootstrap / confidence-band stage
    result,        \* what the call returned or raised
    wk,            \* one _bootstrap_iteration_worker process
    wr,            \* a handler that is writing the DataService
    pre            \* one precompute_all_distributions request

vars == <<data, main_column, pc, req, df, mc, Qmax, fit, curve, band, result,
          wk, wr, pre>>

\* what the steps of compute_frequency_curve do not touch
others == <<wk, wr, pre>>

----------------------------------------------------------------------------
(* Float model *)

FloatMax == 1000000
PosInf   == FloatMax + 1
NegInf   == 0 - PosInf
NaN      == FloatMax + 2

IsFinite(x) == x # NaN /\ x # PosInf /\ x # NegInf

Norm(x) == IF x > FloatMax THEN PosInf ELSE IF x < 0 - FloatMax THEN NegInf ELSE x

FNeg(a) == IF a = NaN THEN NaN ELSE 0 - a

FAdd(a, b) ==
    IF a = NaN \/ b = NaN THEN NaN
    ELSE IF (a = PosInf /\ b = NegInf) \/ (a = NegInf /\ b = PosInf) THEN NaN
    ELSE IF a = PosInf \/ b = PosInf THEN PosInf
    ELSE IF a = NegInf \/ b = NegInf THEN NegInf
    ELSE Norm(a + b)

FSub(a, b) == FAdd(a, FNeg(b))

Sign(a) == IF a > 0 THEN 1 ELSE IF a < 0 THEN 0 - 1 ELSE 0

FMul(a, b) ==
    IF a = NaN \/ b = NaN THEN NaN
    ELSE IF ~IsFinite(a) \/ ~IsFinite(b)
         THEN (IF a = 0 \/ b = 0 THEN NaN
               ELSE IF Sign(a) * Sign(b) > 0 THEN PosInf ELSE NegInf)
    ELSE Norm(a * b)

\* a * num / den with a fixed-point ratio num/den of finite positive integers
FScale(a, num, den) ==
    IF ~IsFinite(a) THEN a
    ELSE IF a >= 0 THEN Norm((a * num) \div den)
    ELSE Norm(0 - (((0 - a) * num) \div den))

FLt(a, b) == a # NaN /\ b # NaN /\ a < b
FLe(a, b) == a # NaN /\ b # NaN /\ a <= b
FGt(a, b) == FLt(b, a)
FGe(a, b) == FLe(b, a)

\* largest r in lo..hi-1 with r * r <= x, by bisection (lo * lo <= x < hi * hi)
RECURSIVE ISqrtIn(_, _, _)
ISqrtIn(x, lo, hi) ==
    IF hi - lo <= 1 THEN lo
    ELSE LET mid == (lo + hi) \div 2
         IN  IF mid * mid <= x THEN ISqrtIn(x, mid, hi) ELSE ISqrtIn(x, lo, mid)

FSqrt(a) ==
    IF a = NaN \/ a = NegInf THEN NaN
    ELSE IF a = PosInf THEN PosInf
    ELSE IF a < 0 THEN NaN
    ELSE ISqrtIn(a, 0, IF a + 1 < 2 ^ 15 THEN a + 1 ELSE 2 ^ 15)

----------------------------------------------------------------------------
(* Sequences *)

Range(s) == { s[i] : i \in 1..Len(s) }

RECURSIVE SeqSum(_)
SeqSum(s) == IF s = <<>> THEN 0 ELSE FAdd(Head(s), SeqSum(Tail(s)))

RECURSIVE SeqMax(_)
SeqMax(s) == IF Len(s) = 1 THEN s[1]
             ELSE LET m == SeqMax(Tail(s)) IN IF s[1] >= m THEN s[1] ELSE m

RECURSIVE SeqMin(_)
SeqMin(s) == IF Len(s) = 1 THEN s[1]
             ELSE LET m == SeqMin(Tail(s)) IN IF s[1] <= m THEN s[1] ELSE m

RECURSIVE InsertDesc(_, _)
InsertDesc(x, s) ==
    IF s = <<>> THEN <<x>>
    ELSE IF x >= Head(s) THEN <<x>> \o s
    ELSE <<Head(s)>> \o InsertDesc(x, Tail(s))

RECURSIVE SortDesc(_)
SortDesc(s) == IF s = <<>> THEN <<>> ELSE InsertDesc(Head(s), SortDesc(Tail(s)))


----------------------------------------------------------------------------
(* DataService and the operations that load it *)

NoneDF == [none |-> TRUE, col |-> "None", hasMonth |-> FALSE, rows |-> <<>>]

Frame(col, hasMonth, rows) ==
    [none |-> FALSE, col |-> col, hasMonth |-> hasMonth, rows |-> rows]

MonthsPerYear == 12

RECURSIVE ExpandMonths(_)
ExpandMonths(rows) ==
    IF rows = <<>> THEN <<>>
    ELSE [m \in 1..MonthsPerYear |->
             [Year |-> Head(rows).Year, Month |-> m, v |-> Head(rows).v]]
         \o ExpandMonths(Tail(rows))

\* DataService.process_data: rows of the processed frame, or <<>> when it raises
\* because nothing is left.
process_data(rows, hasMonth) ==
    LET withMonth == IF hasMonth
                     THEN SelectSeq(rows, LAMBDA r : r.Month # 0)
                     ELSE ExpandMonths(rows)
    IN  SelectSeq(withMonth, LAMBDA r : FGt(r.v, 0))

\* DataService.upload_manual / upload_file: the frame stored, NoneDF when the
\* handler raises before storing anything.
UploadedFrame(p) ==
    LET noNaN == SelectSeq(p.rows, LAMBDA r : r.v # NaN)
        rows  == process_data(noNaN, p.hasMonth)
    IN  IF rows = <<>> THEN NoneDF ELSE Frame(p.col, TRUE, rows)

\* analyze_rainfall: transform_for_analysis keeps the values above
\* min_threshold, the router drops NaN and stores the frame without process_data.
RainfallFrame(p) ==
    LET kept == SelectSeq(p.rows, LAMBDA r : FGt(r.v, p.min_threshold))
    IN  IF kept = <<>> THEN NoneDF ELSE Frame("Rainfall", FALSE, kept)

----------------------------------------------------------------------------
(* Inputs the environment supplies *)

MinPoints  == 3      \* fewer filtered points than this is InsufficientData
CIMinN     == 20     \* smallest sample size that gets a confidence band
SmallYears == 4
MaxYears   == 21
HugeVal    == 2000

Row(y, m, v) == [Year |-> y, Month |-> m, v |-> v]

RampRows(n, base, step) == [i \in 1..n |-> Row(i, 1, base + step * i)]

Lens == (1..SmallYears) \cup ((CIMinN - 1)..MaxYears)

UploadPayloads ==
       { [hasMonth |-> TRUE, col |-> "Q", rows |-> RampRows(n, 100, 10)] : n \in Lens }
  \cup { [hasMonth |-> TRUE, col |-> "Q", rows |-> RampRows(n, 100, 0)]
           : n \in {MinPoints, CIMinN} }
  \cup { [hasMonth |-> TRUE, col |-> "Q", rows |-> RampRows(MinPoints, 0, HugeVal)],
         [hasMonth |-> TRUE, col |-> "Q", rows |-> RampRows(MinPoints, PosInf, 0)],
         [hasMonth |-> TRUE, col |-> "Q",
          rows |-> [i \in 1..SmallYears |->
                       Row(i, 1, IF i = 1 THEN PosInf ELSE 50 * i)]],
         [hasMonth |-> FALSE, col |-> "Q",
          rows |-> [i \in 1..MinPoints |-> Row(i, 0, 40 * i)]],
         [hasMonth |-> TRUE, col |-> "Q", rows |-> RampRows(2, 0, 0)] }

RainfallPayloads ==
    { [min_threshold |-> 0 - 1, rows |-> RampRows(MinPoints, 0, 0)],
      [min_threshold |-> 0 - 1,
       rows |-> [i \in 1..SmallYears |-> Row(i, 1, IF i <= 2 THEN 0 ELSE 30 * i)]],
      [min_threshold |-> 0, rows |-> RampRows(SmallYears, 0, 25)] }

DistributionKeys ==
    {"gumbel", "genextreme", "genpareto", "expon", "lognorm", "logistic",
     "gamma", "pearson3", "frechet"}

DistNames == DistributionKeys \cup {"weibull"}
AggNames  == {"max", "mean", "sum", "median"}
Methods   == {"auto", "mom", "mle", "lmom"}


----------------------------------------------------------------------------
(* compute_frequency_curve: validation (lines 325-332) *)

check_agg_func == {"max", "min", "sum", "mean"}
valid_methods  == {"auto", "mom", "mle"}

NoError == [status |-> 0, detail |-> "none"]
Http(status, detail) == [status |-> status, detail |-> detail]

validate_agg_func(agg) ==
    IF agg \notin check_agg_func THEN Http(400, "InvalidAggregationFunction") ELSE NoError

\* validation that forgets the registry lookup of line 327
ValidateRequest_NoRegistry(dist, agg, method) ==
    IF validate_agg_func(agg) # NoError THEN validate_agg_func(agg)
    ELSE IF method \notin valid_methods THEN Http(400, "InvalidMethod")
    ELSE NoError

ValidateRequest(dist, agg, method) ==
    IF validate_agg_func(agg) # NoError THEN validate_agg_func(agg)
    ELSE IF dist \notin DistributionKeys THEN Http(400, "UnsupportedDistribution")
    ELSE IF method \notin valid_methods THEN Http(400, "InvalidMethod")
    ELSE NoError

----------------------------------------------------------------------------
(* compute_frequency_curve: aggregation and filtering (lines 346-436) *)

RECURSIVE SortedSeqOf(_)
SortedSeqOf(S) ==
    IF S = {} THEN <<>>
    ELSE LET m == CHOOSE x \in S : \A y \in S : x <= y
         IN  <<m>> \o SortedSeqOf(S \ {m})

Years(rows) == { rows[i].Year : i \in 1..Len(rows) }

ValuesOf(rows) == [i \in 1..Len(rows) |-> rows[i].v]

GroupValues(rows, y) == ValuesOf(SelectSeq(rows, LAMBDA r : r.Year = y))

Mean(Q) == FScale(SeqSum(Q), 1, Len(Q))

AggValue(agg, vals) ==
    CASE agg = "max"  -> SeqMax(vals)
      [] agg = "min"  -> SeqMin(vals)
      [] agg = "sum"  -> SeqSum(vals)
      [] agg = "mean" -> Mean(vals)

\* lines 356-377: the values used directly when every Year occurs once, the
\* per-Year aggregate otherwise
AggregateByYear(rows, agg) ==
    IF Cardinality(Years(rows)) = Len(rows)
    THEN ValuesOf(rows)
    ELSE LET ys == SortedSeqOf(Years(rows))
         IN  [k \in 1..Len(ys) |-> AggValue(agg, GroupValues(rows, ys[k]))]

FiniteOnly(Q)   == SelectSeq(Q, IsFinite)
\* filtering that keeps the non-positive values
PositiveOnly_KeepAll(Q) == Q

PositiveOnly(Q) == SelectSeq(Q, LAMBDA x : IsFinite(x) /\ FGt(x, 0))

\* kind "empty": the two-key result of lines 346-348 / 420-422
\* kind "http" : an HTTPException; kind "ok": Qmax is the filtered series
AggregateOutcome(frame, col, agg) ==
    IF frame.none \/ frame.rows = <<>>
    THEN [kind |-> "empty", err |-> NoError, Q |-> <<>>]
    ELSE IF col # frame.col
    THEN [kind |-> "http", err |-> Http(400, "MissingColumn"), Q |-> <<>>]
    ELSE LET q == FiniteOnly(AggregateByYear(frame.rows, agg))
             f == PositiveOnly(q)
         IN  IF q = <<>>    \* np.min of an empty array raises inside the try (line 384)
             THEN [kind |-> "http", err |-> Http(400, "AggregationError"), Q |-> <<>>]
             ELSE IF Len(f) = 0
             THEN [kind |-> "http", err |-> Http(400, "EmptyAfterFiltering"), Q |-> <<>>]
             ELSE IF Len(f) < MinPoints
             THEN [kind |-> "http", err |-> Http(400, "InsufficientData"), Q |-> f]
             ELSE [kind |-> "ok", err |-> NoError, Q |-> f]


----------------------------------------------------------------------------
(* Parameter estimation: _fit_distribution_mom (233-310) and the fitting  *)
(* block of compute_frequency_curve (451-484)                              *)

SC == 1000    \* fixed-point unit of dimensionless quantities (shape, cv^2)

\* np.var(Qmax, ddof=1): 0/0 is NaN when there is a single value
Var(Q) ==
    LET m == Mean(Q)
        d == [i \in 1..Len(Q) |-> FMul(FSub(Q[i], m), FSub(Q[i], m))]
    IN  IF Len(Q) < 2 THEN NaN ELSE FScale(SeqSum(d), 1, Len(Q) - 1)

Std(Q) == FSqrt(Var(Q))

\* a / b for Python floats, b # 0 (units: result in SC-ths)
FRatio(a, b) ==
    IF a = NaN \/ b = NaN THEN NaN
    ELSE IF ~IsFinite(a) /\ ~IsFinite(b) THEN NaN
    ELSE IF ~IsFinite(b) THEN 0
    ELSE IF ~IsFinite(a) THEN (IF Sign(a) * Sign(b) > 0 THEN PosInf ELSE NegInf)
    ELSE IF Sign(a) * Sign(b) >= 0
         THEN Norm((Sign(a) * a * SC) \div (Sign(b) * b))
         ELSE Norm(0 - ((Sign(a) * a * SC) \div (Sign(b) * b * (0 - 1))))

RECURSIVE ILog2(_)
ILog2(x) == IF x <= 1 THEN 0 ELSE 1 + ILog2(x \div 2)

\* np.log of x/SC in SC-ths, to the nearest power of two below
FLog(x) ==
    IF x = NaN \/ x = NegInf THEN NaN
    ELSE IF x = PosInf THEN PosInf
    ELSE IF x < 0 THEN NaN
    ELSE IF x = 0 THEN NegInf
    ELSE (ILog2(x) - ILog2(SC)) * 693

\* np.exp of x/SC, to the nearest power of two below
FExp(x) ==
    IF x = NaN THEN NaN
    ELSE IF x = PosInf THEN PosInf
    ELSE IF x = NegInf THEN 0
    ELSE IF x < 0 THEN 0
    ELSE IF (x * 1443) \div (SC * 1000) > 40 THEN PosInf
    ELSE Norm(2 ^ ((x * 1443) \div (SC * 1000)))

MomParams(p) == [kind |-> "params", p |-> p]
MomNone      == [kind |-> "none",   p |-> <<>>]
MomRaise     == [kind |-> "raise",  p |-> <<>>]

\* float ** 2 on a Python float raises OverflowError instead of returning inf
PySquareOverflows(x) == IsFinite(x) /\ ~IsFinite(FMul(x, x))

_fit_distribution_mom(dist, Q) ==
    LET mean_Q == Mean(Q)
        std_Q  == Std(Q)
        var_Q  == Var(Q)
    IN  CASE dist = "gumbel" ->
               LET scale == FScale(std_Q, 7797, 10000)
                   loc   == FSub(mean_Q, FScale(scale, 57722, 100000))
               IN  MomParams(<<loc, scale>>)
          [] dist = "lognorm" ->
               IF PySquareOverflows(mean_Q) THEN MomRaise
               ELSE LET cv_squared == FRatio(var_Q, FMul(mean_Q, mean_Q))
                    IN  IF FLe(cv_squared, 0) THEN MomNone
                        ELSE LET s  == FSqrt(FMul(FLog(FAdd(SC, cv_squared)), SC))
                                 mu == FSub(FLog(FMul(mean_Q, SC)),
                                            FScale(FMul(s, s), 1, 2 * SC))
                             IN  MomParams(<<s, 0, FExp(mu)>>)
          [] dist = "gamma" ->
               IF FLe(mean_Q, 0) \/ FLe(var_Q, 0) THEN MomNone
               ELSE IF PySquareOverflows(mean_Q) THEN MomRaise
               ELSE MomParams(<<FRatio(FMul(mean_Q, mean_Q), var_Q), 0,
                                FScale(FRatio(var_Q, mean_Q), 1, SC)>>)
          [] dist = "pearson3" -> MomNone
          [] dist = "logistic" ->
               MomParams(<<mean_Q, FScale(std_Q, 5513, 10000)>>)
          [] dist = "expon" ->
               IF FLe(mean_Q, 0) THEN MomNone ELSE MomParams(<<0, mean_Q>>)
          [] OTHER -> MomNone

\* dist.fit (scipy maximum likelihood): the library either raises or returns
\* a tuple of the family's arity, finite or not
MLEOutcomes == {"ok", "nonfinite", "raise"}

Arity(dist) == IF dist \in {"gumbel", "logistic", "expon"} THEN 2 ELSE 3

MLEParams(dist, Q, outcome) ==
    LET loc   == Mean(Q)
        scale == IF FGt(Std(Q), 0) THEN Std(Q) ELSE 1
    IN  IF outcome = "nonfinite"
        THEN (IF Arity(dist) = 2 THEN <<loc, NaN>> ELSE <<NaN, loc, scale>>)
        ELSE (IF Arity(dist) = 2 THEN <<loc, scale>> ELSE <<SC, loc, scale>>)

\* auto that also prefers moments for lognorm
UseMom_AutoLognorm(dist, method) ==
    IF method = "auto" THEN dist \in {"gumbel", "lognorm"}
    ELSE IF method = "mom" THEN TRUE
    ELSE FALSE

\* lines 453-459
UseMom(dist, method) ==
    IF method = "auto" THEN dist = "gumbel"
    ELSE IF method = "mom" THEN TRUE
    ELSE FALSE

AllFinite(p) == \A i \in 1..Len(p) : IsFinite(p[i])

\* lines 476-481
ParamsRejected(p) == Len(p) = 0 \/ ~AllFinite(p)

NoFit ==
    [use_mom |-> FALSE, mom_called |-> FALSE, mom |-> MomNone,
     mle_called |-> FALSE, mle |-> "none", params |-> <<>>, failed |-> FALSE]

\* lines 451-484: failed means the except branch raised HTTP 400
FitBlock(dist, method, Q, outcome) ==
    LET use_mom == UseMom(dist, method)
        mom     == IF use_mom THEN _fit_distribution_mom(dist, Q) ELSE MomNone
        callMLE == IF use_mom THEN mom.kind = "none" ELSE TRUE
        raised  == (use_mom /\ mom.kind = "raise") \/ (callMLE /\ outcome = "raise")
        params  == IF raised THEN <<>>
                   ELSE IF use_mom /\ mom.kind = "params" THEN mom.p
                   ELSE MLEParams(dist, Q, outcome)
    IN  [use_mom |-> use_mom, mom_called |-> use_mom, mom |-> mom,
         mle_called |-> callMLE, mle |-> IF callMLE THEN outcome ELSE "none",
         params |-> params, failed |-> raised \/ ParamsRejected(params)]


----------------------------------------------------------------------------
(* CurveSampler: inverse_mixed_scale and the position grid (lines 496-593) *)

NumPoints == 6      \* num_points of line 575, reduced

min_p            == 1       \* 0.01 %
max_p            == 9999    \* 99.99 %
transition_start == 500     \* 5 %
transition_end   == 2500    \* 25 %

FS == 10000   \* fixed-point unit of the Hermite parameter s and of t

\* 10 ^ (e / 1000) * 1000 for 0 <= e < 1000, linear between tenths of a decade
Pow10Frac(e) ==
    LET T == <<1000, 1259, 1585, 1995, 2512, 3162, 3981, 5012, 6310, 7943, 10000>>
        i == (e \div 100) + 1
    IN  T[i] + ((T[i + 1] - T[i]) * (e % 100)) \div 100

\* np.power(10.0, e / 1000)
Pow10(e) == ((10 ^ (e \div 1000)) * Pow10Frac(e % 1000)) \div 1000

m0 == 6436    \* log_derivative * transition_range / 0.3, in FS-ths
m1 == 3556    \* linear_derivative * transition_range / 0.3, in FS-ths

Clip(x, lo, hi) == IF x < lo THEN lo ELSE IF x > hi THEN hi ELSE x

Hermite(s) ==
    LET s2 == (s * s) \div FS
        s3 == (s2 * s) \div FS
    IN  ((s3 - 2 * s2 + s) * m0) \div FS + (3 * s2 - 2 * s3) + ((s3 - s2) * m1) \div FS

HermiteSlope(s) ==
    LET s2 == (s * s) \div FS
    IN  ((3 * s2 - 4 * s + FS) * m0) \div FS + (6 * s - 6 * s2)
        + ((3 * s2 - 2 * s) * m1) \div FS

\* lines 547-560: `left` Newton steps from s towards Hermite(s) = t
RECURSIVE Newton(_, _, _)
Newton(s, t, left) ==
    IF left = 0 THEN s
    ELSE IF HermiteSlope(s) # 0
    THEN Newton(Clip(s - ((Hermite(s) - t) * FS) \div HermiteSlope(s), 0, FS), t, left - 1)
    ELSE Newton(Clip(s, 0, FS), t, left - 1)

NewtonSteps == 15

\* inverse_mixed_scale at display position x = k / (n - 1)
inverse_mixed_scale(k, n) ==
    IF 10 * k <= 3 * (n - 1)
    THEN Pow10((10 * k * 2699) \div (3 * (n - 1)))
    ELSE IF 10 * k >= 6 * (n - 1)
    THEN transition_end + ((10 * k - 6 * (n - 1)) * (max_p - transition_end)) \div (4 * (n - 1))
    ELSE LET t == Clip(((10 * k - 3 * (n - 1)) * FS) \div (3 * (n - 1)), 0, FS)
         IN  transition_start
             + (Newton(t, t, NewtonSteps) * (transition_end - transition_start)) \div FS

RECURSIVE InsertAsc(_, _)
InsertAsc(x, s) ==
    IF s = <<>> THEN <<x>>
    ELSE IF x <= Head(s) THEN <<x>> \o s
    ELSE <<Head(s)>> \o InsertAsc(x, Tail(s))

RECURSIVE SortAsc(_)
SortAsc(s) == IF s = <<>> THEN <<>> ELSE InsertAsc(Head(s), SortAsc(Tail(s)))

\* line 590: among the first i points keep the first one and every point
\* more than the tolerance above its predecessor
RECURSIVE UniqueUpTo(_, _)
UniqueUpTo(s, i) ==
    IF i = 0 THEN <<>>
    ELSE IF i = 1 THEN <<s[1]>>
    ELSE IF s[i] - s[i - 1] > 0 THEN UniqueUpTo(s, i - 1) \o <<s[i]>>
    ELSE UniqueUpTo(s, i - 1)

UniqueMask(s) == UniqueUpTo(s, Len(s))

\* lines 575-579: the first k of the n clipped positions
RECURSIVE RawPositions(_, _)
RawPositions(k, n) ==
    IF k = 0 THEN <<>>
    ELSE RawPositions(k - 1, n) \o <<Clip(inverse_mixed_scale(k - 1, n), min_p, max_p)>>

\* lines 575-591: p_percent_fixed
SamplePositions(n) ==
    LET raw    == CHOOSE r \in {RawPositions(n, n)} : TRUE
        sorted == CHOOSE r \in {SortAsc(raw)} : TRUE
    IN  UniqueMask(sorted)

----------------------------------------------------------------------------
(* Theoretical curve and empirical points (lines 595-722) *)

ExtremeQ == 500000    \* the 1e12 ceiling of lines 656 and 687, in model units

\* lines 623-629: frequency factor K = (-ln(-ln(1 - p)) - gamma) * sqrt(6) / pi
\* in SC-ths, linear between the tabulated positions
GumbelK(p) ==
    LET Ps == <<1, 100, 500, 2500, 5000, 7500, 9999>>
        Ks == <<6731, 3137, 1866, 521, 0 - 164, 0 - 705, 0 - 2180>>
        j  == CHOOSE i \in 1..6 : Ps[i] <= p /\ p <= Ps[i + 1]
    IN  Ks[j] + ((Ks[j + 1] - Ks[j]) * (p - Ps[j])) \div (Ps[j + 1] - Ps[j])

\* lines 606-618: the fitted parameters are the moments solution of this
\* series (the tolerance 1e-6 is below the resolution of the model)
UseDirectFormula(params, mean_Q, std_Q) ==
    /\ Len(params) = 2
    /\ IsFinite(mean_Q) /\ IsFinite(std_Q)
    /\ params[2] = FScale(std_Q, 7797, 10000)
    /\ params[1] = FSub(mean_Q, FScale(params[2], 57722, 100000))

\* the elements of s at the indices that satisfy keep
RECURSIVE MaskUpTo(_, _, _)
MaskUpTo(s, keep, i) ==
    IF i = 0 THEN <<>>
    ELSE IF keep[i] THEN MaskUpTo(s, keep, i - 1) \o <<s[i]>>
    ELSE MaskUpTo(s, keep, i - 1)

Mask(s, keep) == MaskUpTo(s, keep, Len(s))

\* lines 639 and 652-657
ValidQ(dist, q) ==
    IF dist = "gumbel" THEN IsFinite(q) /\ FGt(q, 0)
    ELSE IsFinite(q) /\ FGt(q, 0) /\ FLt(q, ExtremeQ)

\* lines 600-673: p_percent_fixed and Q_theoretical after the family's filter;
\* lib is what dist.ppf delivers at the sampled positions
QTheoretical(dist, params, Q, lib) ==
    LET P      == SamplePositions(NumPoints)
        mean_Q == Mean(Q)
        std_Q  == Std(Q)
        direct == dist = "gumbel" /\ UseDirectFormula(params, mean_Q, std_Q)
        formula == [i \in 1..Len(P) |->
                      FAdd(mean_Q, FScale(FMul(std_Q, GumbelK(P[i])), 1, SC))]
        keep   == [i \in 1..Len(P) |-> ValidQ(dist, lib[i])]
        all    == \A i \in 1..Len(P) : keep[i]
    IN  IF direct
        THEN [direct |-> TRUE, raised |-> FALSE, P |-> P, Q |-> formula,
              raw |-> formula]
        ELSE IF all
        THEN [direct |-> FALSE, raised |-> FALSE, P |-> P,
              Q |-> [i \in 1..Len(P) |-> lib[i]],
              raw |-> [i \in 1..Len(P) |-> lib[i]]]
        ELSE [direct |-> FALSE,
              raised |-> dist # "gumbel" /\ Mask(P, keep) = <<>>,   \* line 673
              P |-> Mask(P, keep), Q |-> Mask(lib, keep),
              raw |-> [i \in 1..Len(P) |-> lib[i]]]

Point(p, q) == [P_percent |-> p, Q |-> q]

\* a clamp that lets negative quantiles through
Clamp_Identity(q) == q

\* line 691: max(0, q)
Clamp(q) == IF q > 0 THEN q ELSE 0

\* lines 684-698: the loop over zip(p_percent_fixed, Q_theoretical)
RECURSIVE CurveLoop(_, _, _)
CurveLoop(P, Q, i) ==
    IF i = 0 THEN <<>>
    ELSE IF ~IsFinite(Q[i]) \/ FGe(Q[i], ExtremeQ) THEN CurveLoop(P, Q, i - 1)
    ELSE CurveLoop(P, Q, i - 1) \o <<Point(P[i], Clamp(Q[i]))>>

\* lines 692-693
RECURSIVE NumClamped(_, _)
NumClamped(Q, i) ==
    IF i = 0 THEN 0
    ELSE NumClamped(Q, i - 1)
         + (IF IsFinite(Q[i]) /\ ~FGe(Q[i], ExtremeQ) /\ Q[i] < 0 THEN 1 ELSE 0)

RECURSIVE InsertByP(_, _)
InsertByP(x, s) ==
    IF s = <<>> THEN <<x>>
    ELSE IF x.P_percent < Head(s).P_percent THEN <<x>> \o s
    ELSE <<Head(s)>> \o InsertByP(x, Tail(s))

\* sorted(..., key = P_percent): stable, ascending
RECURSIVE SortByP(_, _)
SortByP(s, i) == IF i = 0 THEN <<>> ELSE InsertByP(s[i], SortByP(s, i - 1))

\* lines 684-701
TheoreticalCurve(P, Q) ==
    LET pts == CHOOSE c \in {CurveLoop(P, Q, Len(P))} : TRUE
    IN  SortByP(pts, Len(pts))

\* plotting positions m / n instead of m / (n + 1)
EmpiricalPoints_OverN(Q) ==
    LET Q_sorted == CHOOSE c \in {SortDesc(Q)} : TRUE
        n        == Len(Q_sorted)
    IN  [m \in 1..n |-> [P_num |-> 100 * m, P_den |-> n, Q |-> Q_sorted[m]]]

\* lines 675-679 and 716-722: P_percent = 100 * m / (n + 1), kept as the
\* exact ratio P_num / P_den
EmpiricalPoints(Q) ==
    LET Q_sorted == CHOOSE c \in {SortDesc(Q)} : TRUE
        n        == Len(Q_sorted)
    IN  [m \in 1..n |-> [P_num |-> 100 * m, P_den |-> n + 1, Q |-> Q_sorted[m]]]

----------------------------------------------------------------------------
(* Statistics and quality warnings (lines 727-776) *)

SmallSampleN == 30

\* line 727
CoefVariation(mean_Q, std_Q) == IF mean_Q # 0 THEN FRatio(std_Q, mean_Q) ELSE 0

\* scipy.stats.skew: NaN on a constant series, otherwise what the library
\* computes (in SC-ths)
SkewOutcomes(Q) == IF Std(Q) = 0 \/ ~IsFinite(Std(Q)) THEN {NaN} ELSE {0, 3 * SC}

FAbs(a) == IF a = NaN THEN NaN ELSE IF a < 0 THEN 0 - a ELSE a

\* lines 760-773
ImplausibleFit(q1, Q) ==
    /\ IsFinite(q1)
    /\ FLt(q1, FMul(SeqMax(Q), 10))
    /\ FLt(q1, SeqMax(Q))

\* lines 743-773
QualityWarnings(cv, cs, n, num_clamped, q1, Q) ==
    (IF FGt(cv, SC) THEN {"high_cv"} ELSE {})
    \cup (IF FGt(FAbs(cs), (5 * SC) \div 2) THEN {"high_skew"} ELSE {})
    \cup (IF n < SmallSampleN THEN {"small_sample"} ELSE {})
    \cup (IF num_clamped > 0 THEN {"clamped"} ELSE {})
    \cup (IF ImplausibleFit(q1, Q) THEN {"implausible_fit"} ELSE {})

NoCurve ==
    [raised |-> FALSE, direct |-> FALSE, P |-> <<>>, Q |-> <<>>, Q_raw |-> <<>>,
     theoretical_curve |-> <<>>, empirical_points |-> <<>>, num_clamped |-> 0,
     statistics |-> [mean |-> 0, std |-> 0, cv |-> 0, cs |-> 0, n |-> 0],
     Q_1pct |-> NaN, quality_warnings |-> {}]

\* lines 496-776 for one delivery lib of dist.ppf, one of skew and one of
\* the ppf of the validity check
CurveBlock(dist, params, Q, lib, cs, q1) ==
    LET th     == QTheoretical(dist, params, Q, lib)
        mean_Q == Mean(Q)
        std_Q  == Std(Q)
        cv     == CoefVariation(mean_Q, std_Q)
        nc     == NumClamped(th.Q, Len(th.Q))
    IN  IF th.raised
        THEN [NoCurve EXCEPT !.raised = TRUE]
        ELSE [raised |-> FALSE, direct |-> th.direct, P |-> th.P, Q |-> th.Q,
              Q_raw |-> th.raw,
              theoretical_curve |-> TheoreticalCurve(th.P, th.Q),
              empirical_points |-> EmpiricalPoints(Q),
              num_clamped |-> nc,
              statistics |-> [mean |-> mean_Q, std |-> std_Q, cv |-> cv,
                              cs |-> cs, n |-> Len(Q)],
              Q_1pct |-> q1,
              quality_warnings |-> QualityWarnings(cv, cs, Len(Q), nc, q1, Q)]

\* what dist.ppf delivers for the fitted parameters: lib at the n sampled
\* positions and q1 at 1 % exceedance (line 761)
PpfScenarios == {"finite", "underfit", "equal", "nan", "negative_tail", "few"}

LibArray(sc, n, Q) ==
    [i \in 1..n |->
        CASE sc \in {"finite", "underfit", "equal"} -> SeqMax(Q) + 10 * (n - i)
          [] sc = "nan"           -> NaN
          [] sc = "negative_tail" -> IF i < n THEN SeqMax(Q) + 10 * (n - i) ELSE 0 - 5
          [] sc = "few"           -> IF i <= 2 THEN SeqMax(Q) + 10 * (n - i) ELSE NaN]

Q1Of(sc, Q) ==
    CASE sc = "underfit" -> SeqMax(Q) - 1
      [] sc = "equal"    -> SeqMax(Q)
      [] sc = "nan"      -> NaN
      [] OTHER           -> SeqMax(Q) + 1

ScenarioLibs(Q) ==
    { [lib |-> LibArray(sc, Len(SamplePositions(NumPoints)), Q), q1 |-> Q1Of(sc, Q)] :
        sc \in PpfScenarios }

----------------------------------------------------------------------------
(* Confidence band: gating, bootstrap rows and percentiles (lines 780-931) *)

fast_distributions ==
    {"gumbel", "lognorm", "gamma", "logistic", "expon", "pearson3", "frechet",
     "genpareto"}

\* gating that ignores the sample size
allow_ci_AnySize(n, dist) == dist \in fast_distributions

\* line 786
allow_ci(n, dist) == n >= CIMinN /\ dist \in fast_distributions

MinCIPositions == 5     \* line 814

NBoot == 2              \* n_bootstrap of lines 824-831, reduced

\* what one call of _bootstrap_iteration_worker returns: None ("fail"), or a
\* row of quantiles at the band positions, NaN where line 56 rejected them
RowShapes == {"fail", "nan", "low", "high", "sparse"}

RowOf(shape, ref) ==
    [i \in 1..Len(ref) |->
        CASE shape = "low"    -> IF IsFinite(ref[i]) THEN FScale(ref[i], 8, 10) ELSE 80
          [] shape = "high"   -> IF IsFinite(ref[i]) THEN FScale(ref[i], 13, 10) ELSE 130
          [] shape = "sparse" -> IF i <= 2 THEN (IF IsFinite(ref[i]) THEN ref[i] ELSE 100)
                                 ELSE NaN
          [] OTHER            -> NaN]

\* the finite entries of column i of the rows, ascending
RECURSIVE ColumnUpTo(_, _, _)
ColumnUpTo(rows, i, k) ==
    IF k = 0 THEN <<>>
    ELSE IF rows[k][i] = NaN THEN ColumnUpTo(rows, i, k - 1)
    ELSE InsertAsc(rows[k][i], ColumnUpTo(rows, i, k - 1))

\* a percentile that reads the row appended last
NanPercentile_Latest(rows, i, q) == rows[Len(rows)][i]

\* np.nanpercentile(..., method = 'linear') of one column, q in tenths of a
\* percent
NanPercentile(rows, i, q) ==
    LET v == CHOOSE c \in {ColumnUpTo(rows, i, Len(rows))} : TRUE
        h == (Len(v) - 1) * q
        j == h \div 1000 + 1
    IN  IF v = <<>> THEN NaN
        ELSE IF j >= Len(v) THEN v[Len(v)]
        ELSE v[j] + ((v[j + 1] - v[j]) * (h % 1000)) \div 1000

----------------------------------------------------------------------------
(* Confidence band: width floor, swap and plausibility (lines 936-1078) *)

\* a correction that only pulls the lower bound down
WidthFloorAt_LowerOnly(theo, b) ==
    IF ~(FGt(theo, 0) /\ IsFinite(theo) /\ IsFinite(b[1]) /\ IsFinite(b[2])) THEN b
    ELSE IF (b[2] - b[1]) * 100 >= 30 * theo THEN b
    ELSE <<IF b[1] > (theo * 85) \div 100 THEN (theo * 85) \div 100 ELSE b[1], b[2]>>

\* lines 943-972 at one position of a gumbel band; b = <<lower, upper>>
WidthFloorAt(theo, b) ==
    IF ~(FGt(theo, 0) /\ IsFinite(theo) /\ IsFinite(b[1]) /\ IsFinite(b[2])) THEN b
    ELSE IF (b[2] - b[1]) * 100 >= 30 * theo THEN b
    ELSE LET target_lower == (theo * 85) \div 100
             target_upper == (theo * 115) \div 100
             target_width == (theo * 30) \div 100
             lo == IF b[1] > target_lower THEN target_lower ELSE b[1]
             up == IF b[2] < target_upper THEN target_upper ELSE b[2]
             center == (lo + up) \div 2
         IN  IF up - lo < target_width
             THEN <<center - target_width \div 2, center + target_width \div 2>>
             ELSE <<lo, up>>

\* lines 936-975; ref is Q_theoretical_for_ci
WidthFloor(dist, has_ref, ref, B) ==
    IF dist = "gumbel" /\ has_ref
    THEN [i \in 1..Len(B) |-> WidthFloorAt(ref[i], B[i])]
    ELSE B

\* lines 980-987
SwapInverted(B) ==
    [i \in 1..Len(B) |-> IF FGt(B[i][1], B[i][2]) THEN <<B[i][2], B[i][1]>> ELSE B[i]]

\* lines 1003-1006, exact: p is P_percent in 0.01 %, the empirical range is
\* 100 / (n + 1) .. 100 n / (n + 1) percent
is_interpolation(p, n) == p * (n + 1) >= 10000 /\ p * (n + 1) <= 10000 * n

is_near_extrapolation(p, n) ==
    \/ (2 * p * (n + 1) >= 10000 /\ p * (n + 1) < 10000)
    \/ (p * (n + 1) > 10000 * n /\ 2 * p * (n + 1) <= 30000 * n)

is_far_extrapolation(p, n) ==
    2 * p * (n + 1) < 10000 \/ 2 * p * (n + 1) > 30000 * n

\* one ceiling of 800 % in every zone
max_width_factor_Flat(p, n) == 80

\* lines 1010-1013, in tenths
max_width_factor(p, n) ==
    IF is_far_extrapolation(p, n) THEN 80
    ELSE IF is_near_extrapolation(p, n) THEN 60
    ELSE IF is_interpolation(p, n) THEN 25
    ELSE 10

\* lines 1016-1019
max_upper_factor(p, n) ==
    IF is_far_extrapolation(p, n) THEN 10
    ELSE IF is_near_extrapolation(p, n) THEN 8
    ELSE IF is_interpolation(p, n) THEN 4
    ELSE 1

\* lines 1025-1030, in hundredths
min_lower_factor(dist) ==
    IF dist = "gumbel" THEN 2 ELSE IF dist = "lognorm" THEN 5 ELSE 3

\* lines 992 and 1033-1055 at one position
PlausibleAt(dist, n, p, has_ref, theo, b) ==
    /\ IsFinite(b[1]) /\ IsFinite(b[2])
    /\ (has_ref /\ IsFinite(theo) /\ FGt(theo, 0))
         => /\ ~((b[2] - b[1]) * 10 > max_width_factor(p, n) * theo)
            /\ ~(b[2] > theo * max_upper_factor(p, n))
            /\ ~(b[1] * 100 < theo * min_lower_factor(dist))

Count(mask) == Cardinality({ i \in 1..Len(mask) : mask[i] })

\* a 30 % rule that never disables the band
TooFewValid_Never(valid_count, total_count) == FALSE

\* a floor of one half instead of 30 %
TooFewValid_Half(valid_count, total_count) == 10 * valid_count < 5 * total_count

\* line 1076
TooFewValid(valid_count, total_count) == 10 * valid_count < 3 * total_count

----------------------------------------------------------------------------
(* Confidence band: assembly, compaction, gap interpolation (1082-1270) *)

BandPoint(p, lo, up) == [P_percent |-> p, lower |-> lo, upper |-> up]

\* line 1117
KeepPair(lo, up) == FLt(lo, up) /\ FGe(lo, 0) /\ IsFinite(lo) /\ IsFinite(up)

\* lines 1082-1119: the valid positions that pass the safety test
RECURSIVE Assemble(_, _, _, _)
Assemble(P, B, valid, i) ==
    IF i = 0 THEN <<>>
    ELSE IF valid[i] /\ KeepPair(B[i][1], B[i][2])
    THEN Assemble(P, B, valid, i - 1) \o <<BandPoint(P[i], B[i][1], B[i][2])>>
    ELSE Assemble(P, B, valid, i - 1)

CompactOver == 4      \* the 300 points of line 1124, reduced
InterpCap   == 2      \* the 150 points of lines 1138-1140, reduced

\* s[::step]
RECURSIVE EveryNth(_, _, _)
EveryNth(s, step, from) ==
    IF from > Len(s) THEN {} ELSE {s[from]} \cup EveryNth(s, step, from + step)

NearStride == 2       \* near_extrap_indices[::2], line 1147
FarStride  == 3       \* far_extrap_indices[::3], line 1151

\* lines 1138-1142: the stride over m interpolation indices
InterpStep(m) ==
    IF m > InterpCap
    THEN (IF m \div InterpCap > 1 THEN m \div InterpCap ELSE 1)
    ELSE 1

\* lines 1126-1162: the selected indices (1-based)
SelectedIndices(pts, n) ==
    LET idx(Z(_, _)) == SortedSeqOf({ i \in 1..Len(pts) : Z(pts[i].P_percent, n) })
        interp == idx(is_interpolation)
        near   == idx(is_near_extrapolation)
        far    == idx(is_far_extrapolation)
        chosen == EveryNth(interp, InterpStep(Len(interp)), 1)
                  \cup EveryNth(near, NearStride, 1) \cup EveryNth(far, FarStride, 1)
    IN  chosen \cup {1, Len(pts)}

\* lines 1124-1177
Compact(pts, n) ==
    IF Len(pts) > CompactOver
    THEN LET sel == SortedSeqOf(SelectedIndices(pts, n))
         IN  [k \in 1..Len(sel) |-> pts[sel[k]]]
    ELSE pts

max_gap_threshold == 500    \* 5 % of line 1193
max_spacing       == 100    \* 1 % of line 1202

\* interp1d(kind = 'linear', fill_value = 'extrapolate') through the points
\* (xs[i], ys[i]) at x
Interp1d(xs, ys, x) ==
    LET m == Len(xs)
        j == IF x <= xs[1] THEN 1
             ELSE IF x >= xs[m] THEN m - 1
             ELSE CHOOSE i \in 1..(m - 1) : xs[i] <= x /\ x < xs[i + 1]
    IN  ys[j] + ((ys[j + 1] - ys[j]) * (x - xs[j])) \div (xs[j + 1] - xs[j])

\* np.arange(p_min, p_max + max_spacing, max_spacing)
Grid(p_min, p_max) ==
    [k \in 1..((p_max + max_spacing - p_min - 1) \div max_spacing + 1) |->
        p_min + (k - 1) * max_spacing]

\* filter that only asks for a non-negative finite pair
valid_interp_NoOrder(lo, up) == FGe(lo, 0) /\ IsFinite(lo) /\ IsFinite(up)

\* lines 1224-1227
valid_interp(lo, up) == FLt(lo, up) /\ FGe(lo, 0) /\ IsFinite(lo) /\ IsFinite(up)

HasGap(pts) ==
    \E i \in 1..(Len(pts) - 1) : pts[i + 1].P_percent - pts[i].P_percent > max_gap_threshold

\* lines 1203-1243
Interpolated(pts) ==
    CHOOSE out \in
      { SelectSeq([k \in 1..Len(g) |->
                     BandPoint(g[k], Interp1d(xs, lows, g[k]), Interp1d(xs, ups, g[k]))],
                  LAMBDA pt : valid_interp(pt.lower, pt.upper)) :
          xs   \in {[i \in 1..Len(pts) |-> pts[i].P_percent]},
          lows \in {[i \in 1..Len(pts) |-> pts[i].lower]},
          ups  \in {[i \in 1..Len(pts) |-> pts[i].upper]},
          g    \in {Grid(pts[1].P_percent, pts[Len(pts)].P_percent)} } : TRUE

\* lines 1181-1265
FillGaps(pts) ==
    IF Len(pts) > 2 /\ HasGap(pts) THEN Interpolated(pts) ELSE pts

----------------------------------------------------------------------------
(* Confidence band: the whole block (lines 780-1332) *)

\* the bootstrap loop before any iteration: seeds (line 853), how the
\* iterations run, what became of each future, which futures the collection
\* loop has taken, and bootstrap_quantiles in the order of its appends
NoBoot ==
    [mode |-> "none", seeds |-> <<>>, outcome |-> <<>>, taken |-> <<>>,
     collected |-> <<>>]

NoBand ==
    [boot |-> NoBoot, allow_ci |-> FALSE, started |-> FALSE, n_positions |-> 0, rows |-> 0,
     internal_error |-> FALSE, has_ref |-> FALSE, ref |-> <<>>, P |-> <<>>,
     percentiles |-> <<>>, floored |-> <<>>, swapped |-> <<>>, valid |-> <<>>,
     valid_count |-> 0, total_count |-> 0, temp |-> <<>>, compacted |-> <<>>,
     ci_null |-> TRUE, lower |-> <<>>, upper |-> <<>>]

LowerOf(pts) == [i \in 1..Len(pts) |-> Point(pts[i].P_percent, pts[i].lower)]

UpperOf(pts) == [i \in 1..Len(pts) |-> Point(pts[i].P_percent, pts[i].upper)]

\* lines 936-1270 on the percentile band B0 (pairs <<lower, upper>>) at the
\* positions P for a sample of n values
BandPipeline(dist, n, P, has_ref, ref, B0) ==
    LET floored == WidthFloor(dist, has_ref, ref, B0)
        swapped == SwapInverted(floored)
        valid   == [i \in 1..Len(P) |->
                       PlausibleAt(dist, n, P[i], has_ref, ref[i], swapped[i])]
        null    == TooFewValid(Count(valid), Len(P))
        \* the passes of lines 1082-1265, each on the finished list of the one before
        passes  == { [temp |-> c.temp, compacted |-> c.compacted,
                      final |-> FillGaps(c.compacted)] :
                       c \in { [temp |-> t, compacted |-> Compact(t, n)] :
                                 t \in {Assemble(P, swapped, valid, Len(P))} } }
    IN  CHOOSE b \in
          { [NoBand EXCEPT
               !.has_ref = has_ref, !.ref = ref, !.P = P, !.percentiles = B0,
               !.floored = floored, !.swapped = swapped, !.valid = valid,
               !.valid_count = Count(valid), !.total_count = Len(P),
               !.temp = IF null THEN <<>> ELSE p.temp,
               !.compacted = IF null THEN <<>> ELSE p.compacted,
               !.ci_null = null,
               !.lower = IF null THEN <<>> ELSE LowerOf(p.final),
               !.upper = IF null THEN <<>> ELSE UpperOf(p.final)] : p \in passes } : TRUE

\* the surviving rows of the iterations, in the order they were collected
RECURSIVE SurvivingRows(_, _, _)
SurvivingRows(shapes, ref, k) ==
    IF k = 0 THEN <<>>
    ELSE IF shapes[k] = "fail" THEN SurvivingRows(shapes, ref, k - 1)
    ELSE SurvivingRows(shapes, ref, k - 1) \o <<RowOf(shapes[k], ref)>>

\* lines 838 and 922: dist.ppf at the band positions, the call that produced
\* the curve; after the direct formula it is NaN when the scale is not positive
RefForCI(direct, params, Q) ==
    IF direct /\ ~FGt(params[2], 0) THEN [i \in 1..Len(Q) |-> NaN] ELSE Q

\* lines 786-1332 for one outcome of the bootstrap iterations
\* lines 907-1332: aggregation of bootstrap_quantiles into the band
BandFromRows(dist, n, Pci, refci, rows) ==
    LET B0 == [i \in 1..Len(Pci) |->
                 <<NanPercentile(rows, i, 25), NanPercentile(rows, i, 975)>>]
    IN  IF rows = <<>>      \* lines 910-912, then the NameError of line 998
        THEN [NoBand EXCEPT !.allow_ci = TRUE, !.started = TRUE,
                            !.n_positions = Len(Pci), !.P = Pci,
                            !.internal_error = TRUE]
        ELSE [BandPipeline(dist, n, Pci, TRUE, refci, B0) EXCEPT
                 !.allow_ci = TRUE, !.started = TRUE, !.n_positions = Len(Pci),
                 !.rows = Len(rows)]

BandBlock(dist, n, P, ref, shapes) ==
    LET ci_mask == [i \in 1..Len(P) |-> P[i] >= min_p /\ P[i] <= max_p]
        Pci     == Mask(P, ci_mask)
        refci   == Mask(ref, ci_mask)
        rows    == CHOOSE r \in {SurvivingRows(shapes, refci, Len(shapes))} : TRUE
    IN  IF ~allow_ci(n, dist) THEN NoBand
        ELSE IF Len(Pci) < MinCIPositions
        THEN [NoBand EXCEPT !.allow_ci = TRUE, !.n_positions = Len(Pci), !.P = Pci]
        ELSE CHOOSE b \in { BandFromRows(dist, n, Pci, refci, r) : r \in {rows} } : TRUE

ShapeRank(sh) ==
    CASE sh = "fail" -> 1 [] sh = "nan" -> 2 [] sh = "low" -> 3
      [] sh = "high" -> 4 [] sh = "sparse" -> 5

\* the outcomes of the NBoot iterations, up to their order
BootOutcomes ==
    { s \in [1..NBoot -> RowShapes] :
        \A k \in 1..(NBoot - 1) : ShapeRank(s[k]) <= ShapeRank(s[k + 1]) }

----------------------------------------------------------------------------
(* The request as a process *)

UnreadDF == [none |-> TRUE, col |-> "unread", hasMonth |-> FALSE, rows |-> <<>>]

NoReq    == [dist |-> "none", agg |-> "none", method |-> "none"]
NoResult == [kind |-> "none", status |-> 0, detail |-> "none", keys |-> {}]

\* a boundary that turns every exception into the internal error
Raise_InternalError(err) ==
    [kind |-> "http", status |-> 500, detail |-> err.detail, keys |-> {}]

\* an HTTPException leaving the call (lines 1358-1359)
Raise(err) == [kind |-> "http", status |-> err.status, detail |-> err.detail, keys |-> {}]

EmptyKeys == {"theoretical_curve", "empirical_points"}
FullKeys  == {"theoretical_curve", "empirical_points", "confidence_intervals",
              "statistics", "parameters", "distribution", "quality_warnings"}

Returned(keys) == [kind |-> "ok", status |-> 200, detail |-> "none", keys |-> keys]

\* no worker process, no handler writing, no precompute request
NoWork  == [stage |-> "none"]
NoWrite ==
    [stage |-> "none", kind |-> "none", frame |-> NoneDF, col |-> "None",
     loads |-> {}]
NoPre ==
    [stage |-> "none", dist_list |-> <<>>, task |-> <<>>, next |-> 0,
     results |-> {}, errors |-> {}, success_count |-> 0, status |-> "none",
     summary |-> [total |-> 0, success |-> 0, failed |-> 0]]

Quiet == wk = NoWork /\ wr = NoWrite /\ pre = NoPre

\* no call in progress, the DataService holding frame f under column c
Idle(f, c) ==
    /\ Quiet
    /\ data = f
    /\ main_column = c
    /\ pc = "idle"
    /\ req = NoReq
    /\ df = UnreadDF
    /\ mc = "unread"
    /\ Qmax = <<>>
    /\ fit = NoFit
    /\ curve = NoCurve
    /\ band = NoBand
    /\ result = NoResult

Init ==
    /\ Quiet
    /\ data = NoneDF
    /\ main_column = "None"
    /\ pc = "idle"
    /\ req = NoReq
    /\ df = UnreadDF
    /\ mc = "unread"
    /\ Qmax = <<>>
    /\ fit = NoFit
    /\ curve = NoCurve
    /\ band = NoBand
    /\ result = NoResult

\* DataService.upload_manual / upload_file
Upload ==
    /\ pc = "idle"
    /\ \E p \in UploadPayloads :
          /\ ~UploadedFrame(p).none
          /\ data' = UploadedFrame(p)
          /\ main_column' = p.col
    /\ UNCHANGED <<pc, req, df, mc, Qmax, fit, curve, band, result>>
    /\ UNCHANGED others

\* rainfall_router.analyze_rainfall, lines 143-150
AnalyzeRainfall ==
    /\ pc = "idle"
    /\ \E p \in RainfallPayloads :
          /\ ~RainfallFrame(p).none
          /\ data' = RainfallFrame(p)
          /\ main_column' = "Rainfall"
    /\ UNCHANGED <<pc, req, df, mc, Qmax, fit, curve, band, result>>
    /\ UNCHANGED others

\* data_router.clear_data
ClearData ==
    /\ pc = "idle"
    /\ data' = NoneDF
    /\ main_column' = "None"
    /\ UNCHANGED <<pc, req, df, mc, Qmax, fit, curve, band, result>>
    /\ UNCHANGED others

\* lines 324-335: validation, then the two reads of the DataService
Call(Requests) ==
    /\ pc = "idle"
    /\ \E r \in Requests :
          /\ req' = r
          /\ IF ValidateRequest(r.dist, r.agg, r.method) # NoError
             THEN /\ result' = Raise(ValidateRequest(r.dist, r.agg, r.method))
                  /\ pc' = "done"
                  /\ UNCHANGED <<df, mc>>
             ELSE /\ df' = data
                  /\ mc' = main_column
                  /\ pc' = "aggregate"
                  /\ UNCHANGED result
    /\ UNCHANGED <<data, main_column, Qmax, fit, curve, band>>
    /\ UNCHANGED others

AnyRequest ==
    { [dist |-> d, agg |-> a, method |-> m] :
         d \in DistNames, a \in AggNames, m \in Methods }

CallAny == Call(AnyRequest)

\* lines 346-436
Aggregate ==
    /\ pc = "aggregate"
    /\ LET out == AggregateOutcome(df, mc, req.agg)
       IN  /\ Qmax' = out.Q
           /\ CASE out.kind = "empty" -> /\ result' = Returned(EmptyKeys)
                                         /\ pc' = "done"
                [] out.kind = "http"  -> /\ result' = Raise(out.err)
                                         /\ pc' = "done"
                [] out.kind = "ok"    -> /\ pc' = "fit"
                                         /\ UNCHANGED result
    /\ UNCHANGED <<data, main_column, req, df, mc, fit, curve, band>>
    /\ UNCHANGED others

\* lines 448-484
Fit ==
    /\ pc = "fit"
    /\ \E o \in MLEOutcomes :
          /\ fit' = FitBlock(req.dist, req.method, Qmax, o)
          /\ (o # "ok" => fit'.mle_called)
    /\ IF fit'.failed
       THEN /\ result' = Raise(Http(400, "DegenerateFit"))
            /\ pc' = "done"
       ELSE /\ pc' = "curve"
            /\ UNCHANGED result
    /\ UNCHANGED <<data, main_column, req, df, mc, Qmax, curve, band>>
    /\ UNCHANGED others

\* lines 496-776; an exception that is not an HTTPException becomes HTTP 500
\* (lines 1360-1362)
Curve(Libs) ==
    /\ pc = "curve"
    /\ \E env \in Libs, cs \in SkewOutcomes(Qmax) :
          curve' = CurveBlock(req.dist, fit.params, Qmax, env.lib, cs, env.q1)
    /\ IF curve'.raised
       THEN /\ result' = Raise(Http(500, "InternalError"))
            /\ pc' = "done"
       ELSE /\ pc' = "band"
            /\ UNCHANGED result
    /\ UNCHANGED <<data, main_column, req, df, mc, Qmax, fit, band>>
    /\ UNCHANGED others

CurveStage == Curve(ScenarioLibs(Qmax))

\* lines 780-1357: the confidence band, then the return of all outputs
Band ==
    /\ pc = "band"
    /\ \E shapes \in BootOutcomes :
          band' = BandBlock(req.dist, Len(Qmax), curve.P,
                            RefForCI(curve.direct, fit.params, curve.Q), shapes)
    /\ result' = Returned(FullKeys)
    /\ pc' = "done"
    /\ UNCHANGED <<data, main_column, req, df, mc, Qmax, fit, curve>>
    /\ UNCHANGED others

\* a call that resets the DataService when it returns
Return_ClearsData ==
    /\ pc = "done"
    /\ pc' = "idle"
    /\ req' = NoReq
    /\ df' = UnreadDF
    /\ mc' = "unread"
    /\ Qmax' = <<>>
    /\ fit' = NoFit
    /\ curve' = NoCurve
    /\ band' = NoBand
    /\ result' = NoResult
    /\ data' = NoneDF
    /\ main_column' = "None"
    /\ UNCHANGED others

\* the response has been delivered; the locals of the call are gone
Return ==
    /\ pc = "done"
    /\ pc' = "idle"
    /\ req' = NoReq
    /\ df' = UnreadDF
    /\ mc' = "unread"
    /\ Qmax' = <<>>
    /\ fit' = NoFit
    /\ curve' = NoCurve
    /\ band' = NoBand
    /\ result' = NoResult
    /\ UNCHANGED <<data, main_column>>
    /\ UNCHANGED others

Next ==
    \/ Upload
    \/ AnalyzeRainfall
    \/ ClearData
    \/ CallAny
    \/ Aggregate
    \/ Fit
    \/ CurveStage
    \/ Band
    \/ Return

Spec == Init /\ [][Next]_vars


----------------------------------------------------------------------------
(* The curve stage on its own: every delivery of dist.ppf *)

\* what dist.ppf can deliver at one position
QValues == {NaN, 0 - 5, 7, ExtremeQ}

\* yearly series of MinPoints positive values, unsorted, sorted and constant
CurveSeries == { <<5, 100, 7>>, <<7, 5, 100>>, <<100, 100, 100>> }

AllLibs ==
    { [lib |-> a, q1 |-> NaN] : a \in [1..Len(SamplePositions(NumPoints)) -> QValues] }

CurveRequests ==
    { [dist |-> "gumbel",  agg |-> "max", method |-> "auto"],
      [dist |-> "gumbel",  agg |-> "max", method |-> "mle"],
      [dist |-> "lognorm", agg |-> "max", method |-> "mle"] }

\* a series has been uploaded
InitCurve ==
    \E Q \in CurveSeries :
       Idle(UploadedFrame([hasMonth |-> TRUE, col |-> "Q",
                           rows |-> [i \in 1..Len(Q) |-> Row(i, 1, Q[i])]]), "Q")

CallCurve == Call(CurveRequests)

\* no ppf is called by the direct formula
CurveAll ==
    Curve(IF req.dist = "gumbel" /\ UseDirectFormula(fit.params, Mean(Qmax), Std(Qmax))
          THEN {[lib |-> LibArray("nan", Len(SamplePositions(NumPoints)), Qmax),
                 q1 |-> NaN]}
          ELSE AllLibs)

NextCurve ==
    \/ CallCurve
    \/ Aggregate
    \/ Fit
    \/ CurveAll

SpecCurve == InitCurve /\ [][NextCurve]_vars

----------------------------------------------------------------------------
(* The band passes on their own: every percentile band *)

\* a percentile pair at a position whose reference quantile is q: the
\* bootstrap rows do not depend on the reference, so where it is not a number
\* the pair is placed around the level of the series
PairKinds == {"nan", "tight", "wide", "absurd"}

PairOf(kind, q) ==
    LET r == IF IsFinite(q) THEN q ELSE 100
    IN  CASE kind = "nan"    -> <<NaN, NaN>>
          [] kind = "tight"  -> <<r, r + 5>>
          [] kind = "wide"   -> <<r \div 3, (8 * r) \div 3>>
          [] kind = "broad"  -> <<r \div 10, (39 * r) \div 10>>
          [] kind = "absurd" -> <<r, 20 * r>>

BandRequests ==
    { [dist |-> "gumbel",  agg |-> "max", method |-> "auto"],
      [dist |-> "lognorm", agg |-> "max", method |-> "mle"] }

\* a series of CIMinN years has been uploaded
InitBand ==
    Idle(UploadedFrame([hasMonth |-> TRUE, col |-> "Q",
                        rows |-> RampRows(CIMinN, 100, 10)]), "Q")

CallBand == Call(BandRequests)

CurveFinite ==
    Curve({[lib |-> LibArray("finite", Len(SamplePositions(NumPoints)), Qmax),
            q1 |-> Q1Of("finite", Qmax)]})

\* lines 930-1357 for one delivery of np.nanpercentile, the pair at each
\* position drawn from Kinds
BandApplyOf(Kinds) ==
    /\ pc = "band"
    /\ \E kinds \in [1..Len(curve.P) -> Kinds] :
       \E ref \in {RefForCI(curve.direct, fit.params, curve.Q)} :
       \E B0 \in {[i \in 1..Len(curve.P) |-> PairOf(kinds[i], ref[i])]} :
          band' = [BandPipeline(req.dist, Len(Qmax), curve.P, TRUE, ref, B0)
                     EXCEPT !.allow_ci = TRUE, !.started = TRUE,
                            !.n_positions = Len(curve.P), !.rows = NBoot]
    /\ result' = Returned(FullKeys)
    /\ pc' = "done"
    /\ UNCHANGED <<data, main_column, req, df, mc, Qmax, fit, curve>>
    /\ UNCHANGED others

BandApply == BandApplyOf(PairKinds)

NextBand ==
    \/ CallBand
    \/ Aggregate
    \/ Fit
    \/ CurveFinite
    \/ BandApply

SpecBand == InitBand /\ [][NextBand]_vars

\* the plausibility filter with and without a usable reference: a rising and
\* a constant series (the gumbel scale of a constant series is 0, its ppf NaN)
PlausibleKinds == {"tight", "broad", "absurd"}

PlausibleRequests ==
    { [dist |-> "gumbel",  agg |-> "max", method |-> "auto"],
      [dist |-> "gumbel",  agg |-> "max", method |-> "mom"],
      [dist |-> "lognorm", agg |-> "max", method |-> "mle"] }

InitPlausible ==
    \E step \in {10, 0} :
       Idle(UploadedFrame([hasMonth |-> TRUE, col |-> "Q",
                           rows |-> RampRows(CIMinN, 100, step)]), "Q")

CallPlausible == Call(PlausibleRequests)

BandApplyPlausible == BandApplyOf(PlausibleKinds)

NextPlausible ==
    \/ CallPlausible
    \/ Aggregate
    \/ Fit
    \/ CurveFinite
    \/ BandApplyPlausible

SpecPlausible == InitPlausible /\ [][NextPlausible]_vars

----------------------------------------------------------------------------
(* The bootstrap loop step by step: pool, futures, collection, fallback *)

\* np.random.randint(0, 2**31) reduced: a seed fixes the resample and with it
\* the row the worker computes
Seeds == 1..Cardinality(RowShapes)

ShapeOfSeed(seed) == CHOOSE sh \in RowShapes : ShapeRank(sh) = seed

\* the worker's return value None
NoRow == <<>>

\* a worker that does not resample from its own seed
WorkerReturn_Unseeded(seed, ref) == RowOf("low", ref)

\* _bootstrap_iteration_worker: a function of its argument tuple alone; an
\* exception inside its try and a rejected sample both return None
WorkerReturn(seed, ref) ==
    IF ShapeOfSeed(seed) = "fail" THEN NoRow ELSE RowOf(ShapeOfSeed(seed), ref)

\* a failed iteration that throws away the rows collected before it
CollectRow_AbortOnFailure(rows, outcome, row) ==
    IF outcome = "returned" /\ row # NoRow THEN Append(rows, row) ELSE <<>>

\* lines 878-892 and 897-902: one pass of a collection loop over a finished
\* iteration; a future that raised is swallowed by the except of line 890
CollectRow(rows, outcome, row) ==
    IF outcome = "returned" /\ row # NoRow THEN Append(rows, row) ELSE rows

\* lines 877-892 with every future returning: the rows appended when the
\* futures complete in the order given
RECURSIVE PoolRows(_, _, _, _)
PoolRows(seeds, ref, order, k) ==
    IF k = 0 THEN <<>>
    ELSE CollectRow(PoolRows(seeds, ref, order, k - 1), "returned",
                    WorkerReturn(seeds[order[k]], ref))

\* the completion orders of the futures
Orders == { o \in [1..NBoot -> 1..NBoot] :
              \A i, j \in 1..NBoot : o[i] = o[j] => i = j }

\* a sequential loop that draws its seeds anew instead of using the list
SequentialRows_Reseeded(seeds, ref, k) ==
    SelectSeq([i \in 1..k |-> WorkerReturn(seeds[1], ref)],
              LAMBDA r : r # NoRow)

\* lines 893-905: the sequential loop over the same seeds
RECURSIVE SequentialRows(_, _, _)
SequentialRows(seeds, ref, k) ==
    IF k = 0 THEN <<>>
    ELSE CollectRow(SequentialRows(seeds, ref, k - 1), "returned",
                    WorkerReturn(seeds[k], ref))

\* lines 804-808
CIPositions(P) == Mask(P, [i \in 1..Len(P) |-> P[i] >= min_p /\ P[i] <= max_p])

CIReference(P, ref) == Mask(ref, [i \in 1..Len(P) |-> P[i] >= min_p /\ P[i] <= max_p])

\* lines 786-869: gating, seeds, creation of the pool and submission; a
\* failure of either sends the loop to the except of line 893
StartBootstrap ==
    /\ pc = "band"
    /\ LET n   == Len(Qmax)
           Pci == CIPositions(curve.P)
           ref == CIReference(curve.P, RefForCI(curve.direct, fit.params, curve.Q))
       IN  IF ~allow_ci(n, req.dist)
           THEN /\ band' = NoBand
                /\ result' = Returned(FullKeys)
                /\ pc' = "done"
           ELSE IF Len(Pci) < MinCIPositions
           THEN /\ band' = [NoBand EXCEPT !.allow_ci = TRUE,
                                          !.n_positions = Len(Pci), !.P = Pci]
                /\ result' = Returned(FullKeys)
                /\ pc' = "done"
           ELSE \E seeds \in [1..NBoot -> Seeds], pool_ok \in BOOLEAN :
                  /\ band' = [NoBand EXCEPT
                                !.allow_ci = TRUE, !.started = TRUE,
                                !.n_positions = Len(Pci), !.P = Pci,
                                !.has_ref = TRUE, !.ref = ref,
                                !.boot = [mode |-> IF pool_ok THEN "pool"
                                                   ELSE "sequential",
                                          seeds |-> seeds,
                                          outcome |-> [i \in 1..NBoot |->
                                                         IF pool_ok THEN "running"
                                                         ELSE "none"],
                                          taken |-> [i \in 1..NBoot |-> FALSE],
                                          collected |-> <<>>]]
                  /\ pc' = IF pool_ok THEN "pool" ELSE "sequential"
                  /\ UNCHANGED result
    /\ UNCHANGED <<data, main_column, req, df, mc, Qmax, fit, curve>>
    /\ UNCHANGED others

\* a worker process ends: the future holds the worker's return value, or an
\* exception when the process died or its result could not be transferred
WorkerFinish(i) ==
    /\ pc = "pool"
    /\ band.boot.outcome[i] = "running"
    /\ \E o \in {"returned", "raised"} :
          band' = [band EXCEPT !.boot.outcome[i] = o]
    /\ UNCHANGED <<data, main_column, pc, req, df, mc, Qmax, fit, curve, result>>
    /\ UNCHANGED others

\* a worker process that never ends
WorkerHang(i) ==
    /\ pc = "pool"
    /\ band.boot.outcome[i] = "running"
    /\ band' = [band EXCEPT !.boot.outcome[i] = "hung"]
    /\ UNCHANGED <<data, main_column, pc, req, df, mc, Qmax, fit, curve, result>>
    /\ UNCHANGED others

\* lines 877-892: as_completed yields a finished future, in the order of
\* completion; future.result(timeout=300) on a finished future returns or
\* raises at once; the loop ends when every future has been yielded
Collect(i) ==
    /\ pc = "pool"
    /\ band.boot.outcome[i] \in {"returned", "raised"}
    /\ ~band.boot.taken[i]
    /\ band' = [band EXCEPT
                  !.boot.taken[i] = TRUE,
                  !.boot.collected =
                      CollectRow(@, band.boot.outcome[i],
                                 WorkerReturn(band.boot.seeds[i], band.ref))]
    /\ pc' = IF \A j \in 1..NBoot : band'.boot.taken[j] THEN "percentiles" ELSE "pool"
    /\ UNCHANGED <<data, main_column, req, df, mc, Qmax, fit, curve, result>>
    /\ UNCHANGED others

\* lines 893-905
SequentialFallback ==
    /\ pc = "sequential"
    /\ band' = [band EXCEPT
                  !.boot.collected = SequentialRows(band.boot.seeds, band.ref, NBoot)]
    /\ pc' = "percentiles"
    /\ UNCHANGED <<data, main_column, req, df, mc, Qmax, fit, curve, result>>
    /\ UNCHANGED others

\* lines 907-1357
AggregateRows ==
    /\ pc = "percentiles"
    /\ \E rows \in {band.boot.collected} :
          band' = [BandFromRows(req.dist, Len(Qmax), band.P, band.ref, rows)
                     EXCEPT !.boot = band.boot, !.ref = band.ref]
    /\ result' = Returned(FullKeys)
    /\ pc' = "done"
    /\ UNCHANGED <<data, main_column, req, df, mc, Qmax, fit, curve>>
    /\ UNCHANGED others

BootRequests ==
    { [dist |-> "gumbel",  agg |-> "max", method |-> "auto"],
      [dist |-> "lognorm", agg |-> "max", method |-> "mle"] }

CallBoot == Call(BootRequests)

NextBoot ==
    \/ CallBoot
    \/ Aggregate
    \/ Fit
    \/ CurveFinite
    \/ StartBootstrap
    \/ \E i \in 1..NBoot : WorkerFinish(i)
    \/ \E i \in 1..NBoot : WorkerHang(i)
    \/ \E i \in 1..NBoot : Collect(i)
    \/ SequentialFallback
    \/ AggregateRows

SpecBoot == InitBand /\ [][NextBoot]_vars

\* the pool runs every worker to its end when the worker has one, and the
\* request thread keeps running its loops and the code after them
SpecBootFair ==
    /\ SpecBoot
    /\ WF_vars(\E i \in 1..NBoot : WorkerFinish(i))
    /\ WF_vars(\E i \in 1..NBoot : Collect(i))
    /\ WF_vars(SequentialFallback)

SomeHung ==
    /\ band.boot.mode = "pool"
    /\ \E i \in 1..NBoot : band.boot.outcome[i] = "hung"

\* without a hanging worker both loops end
LoopsEnd == (pc \in {"pool", "sequential"}) ~> (pc = "percentiles" \/ SomeHung)

----------------------------------------------------------------------------
(* One worker process: _bootstrap_iteration_worker from its arguments     *)

RowLen == 4     \* number of band positions handed to the worker, reduced

\* what dist.ppf of the refitted sample delivers at one position, the
\* reference quantile there being RefQ
RefQ == 100

BootQValues == {NaN, 0 - 5, 1, RefQ, 20 * RefQ}

MaxRatio(dist) == IF dist = "lognorm" THEN 8 ELSE 10      \* line 62

\* lines 64-69, in thousandths
MinRatioMilli(dist) ==
    IF dist = "gumbel" THEN 5 ELSE IF dist = "lognorm" THEN 150 ELSE 50

\* line 77, in percent
OutlierThresholdPct(dist) == IF dist = "gumbel" THEN 30 ELSE 10

\* line 56: np.where(isfinite & > 0 & < absolute_max, bootstrap_Q, nan)
FilterInvalid(bq, absolute_max) ==
    [i \in 1..Len(bq) |->
        IF IsFinite(bq[i]) /\ FGt(bq[i], 0) /\ FLt(bq[i], absolute_max)
        THEN bq[i] ELSE NaN]

\* lines 71-75: the positions the loop marks as outliers
OutlierPositions(dist, q, ref) ==
    { i \in 1..Len(q) :
        /\ IsFinite(q[i]) /\ IsFinite(ref[i]) /\ FGt(ref[i], 0)
        /\ \/ 1000 * q[i] < MinRatioMilli(dist) * ref[i]
           \/ q[i] > MaxRatio(dist) * ref[i] }

FiniteCount(q) == Cardinality({ i \in 1..Len(q) : IsFinite(q[i]) })

\* lines 77-80: outlier_ratio > outlier_threshold
RowRejected(dist, q, ref) ==
    /\ FiniteCount(q) > 0
    /\ 100 * Cardinality(OutlierPositions(dist, q, ref))
         > OutlierThresholdPct(dist) * FiniteCount(q)

\* lines 51-84 once dist.ppf has delivered bq; has_ref is
\* Q_theoretical_ref is not None; the result is None (NoRow) or the row
WorkerResult(dist, bq, has_ref, ref, absolute_max) ==
    LET q == FilterInvalid(bq, absolute_max)
    IN  IF has_ref /\ RowRejected(dist, q, ref) THEN <<>> ELSE q

WorkerDists == {"gumbel", "lognorm", "gamma"}

WorkerArgs ==
    { [stage |-> "called", dist |-> d, bq |-> b, has_ref |-> h,
       ref |-> [i \in 1..RowLen |-> RefQ], absolute_max |-> 100 * RefQ,
       raised |-> FALSE, out |-> <<>>] :
        d \in WorkerDists, b \in [1..RowLen -> BootQValues], h \in BOOLEAN }

\* a worker process has been handed its argument tuple
InitWorker ==
    /\ wk \in WorkerArgs
    /\ wr = NoWrite /\ pre = NoPre
    /\ data = NoneDF /\ main_column = "None" /\ pc = "idle" /\ req = NoReq
    /\ df = UnreadDF /\ mc = "unread" /\ Qmax = <<>> /\ fit = NoFit
    /\ curve = NoCurve /\ band = NoBand /\ result = NoResult

\* lines 51-82: fit and ppf deliver, the row is filtered and judged
WorkerRun ==
    /\ wk.stage = "called"
    /\ wk' = [wk EXCEPT !.stage = "done",
                        !.out = WorkerResult(wk.dist, wk.bq, wk.has_ref, wk.ref,
                                             wk.absolute_max)]
    /\ UNCHANGED <<data, main_column, pc, req, df, mc, Qmax, fit, curve, band,
                   result, wr, pre>>

\* lines 52-53 and 83-84: dist.fit or dist.ppf raises, the worker returns None
WorkerRaise ==
    /\ wk.stage = "called"
    /\ wk' = [wk EXCEPT !.stage = "done", !.raised = TRUE, !.out = <<>>]
    /\ UNCHANGED <<data, main_column, pc, req, df, mc, Qmax, fit, curve, band,
                   result, wr, pre>>

NextWorker ==
    \/ WorkerRun
    \/ WorkerRaise

SpecWorker == InitWorker /\ [][NextWorker]_vars

----------------------------------------------------------------------------
(* Adaptive sampling on its own: lines 1124-1173 from temp_lower *)

LongSeries == 100     \* years of a long record

\* the restricted positions of a grid of nine, in 0.01 %
SamplingGrid == <<1, 50, 120, 300, 700, 1500, 4000, 8000, 9999>>

\* temp_lower / temp_upper: the positions that passed lines 1082-1119
SamplingInputs ==
    { [n |-> n, temp |-> [k \in 1..Len(sel) |-> BandPoint(SamplingGrid[sel[k]], 100, 150)]] :
        n \in {CIMinN, LongSeries},
        sel \in { SortedSeqOf(S) : S \in SUBSET (1..Len(SamplingGrid)) } }

\* the call has reached line 1124 with temp_lower built
InitSampling ==
    /\ Quiet
    /\ \E in \in SamplingInputs :
          /\ Qmax = [i \in 1..in.n |-> 100 + i]
          /\ band = [NoBand EXCEPT !.allow_ci = TRUE, !.started = TRUE,
                                   !.temp = in.temp]
    /\ data = NoneDF /\ main_column = "None" /\ pc = "sampling" /\ req = NoReq
    /\ df = UnreadDF /\ mc = "unread" /\ fit = NoFit
    /\ curve = NoCurve /\ result = NoResult

\* lines 1124-1173
Sample ==
    /\ pc = "sampling"
    /\ band' = [band EXCEPT !.compacted = Compact(band.temp, Len(Qmax))]
    /\ pc' = "sampled"
    /\ UNCHANGED <<data, main_column, req, df, mc, Qmax, fit, curve, result>>
    /\ UNCHANGED others

NextSampling == Sample

SpecSampling == InitSampling /\ [][NextSampling]_vars

----------------------------------------------------------------------------
(* The DataService shared between threads: the two reads of lines 334-335
   against the two or four assignments of a handler that loads or clears *)

RaceUploads ==
    { [hasMonth |-> TRUE, col |-> c, rows |-> RampRows(MinPoints, 100, 10)] :
        c \in {"Q", "H"} }

RaceRainfall == { p \in RainfallPayloads : ~RainfallFrame(p).none }

RaceRequests == { [dist |-> "gumbel", agg |-> "max", method |-> "auto"] }

\* the service after construction; wr.loads collects the pair of every load
\* and clear that has begun
InitRace ==
    /\ wk = NoWork /\ pre = NoPre
    /\ wr = [NoWrite EXCEPT !.loads = {<<NoneDF, "None">>}]
    /\ data = NoneDF /\ main_column = "None" /\ pc = "idle" /\ req = NoReq
    /\ df = UnreadDF /\ mc = "unread" /\ Qmax = <<>> /\ fit = NoFit
    /\ curve = NoCurve /\ band = NoBand /\ result = NoResult

\* upload_file / upload_manual up to the two assignments: the frame is built
\* in local variables (data_service.py lines 86-96 and 114-124)
BeginUpload ==
    /\ wr.stage = "none"
    /\ \E p \in RaceUploads :
          /\ ~UploadedFrame(p).none
          /\ wr' = [wr EXCEPT !.stage = "store_data", !.kind = "upload",
                              !.frame = UploadedFrame(p), !.col = p.col,
                              !.loads = @ \cup {<<UploadedFrame(p), p.col>>}]
    /\ UNCHANGED <<data, main_column, pc, req, df, mc, Qmax, fit, curve, band,
                   result, wk, pre>>

\* analyze_rainfall up to line 144
BeginRainfall ==
    /\ wr.stage = "none"
    /\ \E p \in RaceRainfall :
          wr' = [wr EXCEPT !.stage = "reset_data", !.kind = "analyze_rainfall",
                           !.frame = RainfallFrame(p), !.col = "Rainfall",
                           !.loads = @ \cup {<<NoneDF, "None">>,
                                             <<RainfallFrame(p), "Rainfall">>}]
    /\ UNCHANGED <<data, main_column, pc, req, df, mc, Qmax, fit, curve, band,
                   result, wk, pre>>

\* clear_data is entered
BeginClear ==
    /\ wr.stage = "none"
    /\ wr' = [wr EXCEPT !.stage = "reset_data", !.kind = "clear_data",
                        !.frame = NoneDF, !.col = "None",
                        !.loads = @ \cup {<<NoneDF, "None">>}]
    /\ UNCHANGED <<data, main_column, pc, req, df, mc, Qmax, fit, curve, band,
                   result, wk, pre>>

\* data_service.data = None (rainfall_router line 145, data_router line 35)
ResetData ==
    /\ wr.stage = "reset_data"
    /\ data' = NoneDF
    /\ wr' = [wr EXCEPT !.stage = "reset_column"]
    /\ UNCHANGED <<main_column, pc, req, df, mc, Qmax, fit, curve, band,
                   result, wk, pre>>

\* data_service.main_column = None (rainfall_router line 146, data_router
\* line 36)
ResetColumn ==
    /\ wr.stage = "reset_column"
    /\ main_column' = "None"
    /\ wr' = [wr EXCEPT !.stage = IF wr.kind = "clear_data" THEN "none"
                                  ELSE "store_data"]
    /\ UNCHANGED <<data, pc, req, df, mc, Qmax, fit, curve, band, result, wk, pre>>

\* self.data = df (data_service.py lines 98 and 126, rainfall_router line 149)
StoreData ==
    /\ wr.stage = "store_data"
    /\ data' = wr.frame
    /\ wr' = [wr EXCEPT !.stage = "store_column"]
    /\ UNCHANGED <<main_column, pc, req, df, mc, Qmax, fit, curve, band,
                   result, wk, pre>>

\* self.main_column = main_column (data_service.py lines 99 and 127,
\* rainfall_router line 150)
StoreColumn ==
    /\ wr.stage = "store_column"
    /\ main_column' = wr.col
    /\ wr' = [wr EXCEPT !.stage = "none"]
    /\ UNCHANGED <<data, pc, req, df, mc, Qmax, fit, curve, band, result, wk, pre>>

\* lines 324-332: a request with valid arguments reaches the reads
RaceCall ==
    /\ pc = "idle"
    /\ \E r \in RaceRequests :
          /\ ValidateRequest(r.dist, r.agg, r.method) = NoError
          /\ req' = r
    /\ pc' = "read_data"
    /\ UNCHANGED <<data, main_column, df, mc, Qmax, fit, curve, band, result>>
    /\ UNCHANGED others

\* line 334: df = self.data_service.data
ReadData ==
    /\ pc = "read_data"
    /\ df' = data
    /\ pc' = "read_column"
    /\ UNCHANGED <<data, main_column, req, mc, Qmax, fit, curve, band, result>>
    /\ UNCHANGED others

\* line 335: main_column = self.data_service.main_column
ReadColumn ==
    /\ pc = "read_column"
    /\ mc' = main_column
    /\ pc' = "read"
    /\ UNCHANGED <<data, main_column, req, df, Qmax, fit, curve, band, result>>
    /\ UNCHANGED others

\* lines 337-1362 work on the two locals; the call ends
RaceReturn ==
    /\ pc = "read"
    /\ pc' = "idle"
    /\ req' = NoReq
    /\ df' = UnreadDF
    /\ mc' = "unread"
    /\ UNCHANGED <<data, main_column, Qmax, fit, curve, band, result>>
    /\ UNCHANGED others

NextRace ==
    \/ BeginUpload
    \/ BeginRainfall
    \/ BeginClear
    \/ ResetData
    \/ ResetColumn
    \/ StoreData
    \/ StoreColumn
    \/ RaceCall
    \/ ReadData
    \/ ReadColumn
    \/ RaceReturn

SpecRace == InitRace /\ [][NextRace]_vars

----------------------------------------------------------------------------
(* precompute_all_distributions: analysis_router.py lines 361-464 *)

\* lines 385-388, in their order
all_distributions ==
    <<"gumbel", "lognorm", "gamma", "logistic", "expon", "genextreme",
      "genpareto", "frechet", "pearson3">>

MaxRequested == 2     \* names in the distributions parameter
PoolCap      == 4     \* max_workers of line 408

\* the distributions parameter after split, strip and lower; <<>> when it is
\* not given
RequestedLists ==
    UNION { [1..k -> {"gumbel", "lognorm", "bogus"}] : k \in 0..MaxRequested }

\* lines 391-400
DistList(requested) ==
    LET valid == SelectSeq(requested,
                           LAMBDA d : \E i \in 1..Len(all_distributions) :
                                         all_distributions[i] = d)
    IN  IF requested = <<>> \/ valid = <<>> THEN all_distributions ELSE valid

\* the queued task a freed worker thread takes next
FirstQueued(task) ==
    IF \E i \in 1..Len(task) : task[i] = "queued"
    THEN CHOOSE i \in 1..Len(task) :
            task[i] = "queued" /\ \A j \in 1..(i - 1) : task[j] # "queued"
    ELSE 0

\* task i ends with the given outcome and its thread takes the next task
Finished(task, i, outcome) ==
    LET done == [task EXCEPT ![i] = outcome]
        k    == FirstQueued(done)
    IN  IF k = 0 THEN done ELSE [done EXCEPT ![k] = "running"]

InitPre ==
    /\ wk = NoWork /\ wr = NoWrite /\ pre = NoPre
    /\ data = NoneDF /\ main_column = "None" /\ pc = "idle" /\ req = NoReq
    /\ df = UnreadDF /\ mc = "unread" /\ Qmax = <<>> /\ fit = NoFit
    /\ curve = NoCurve /\ band = NoBand /\ result = NoResult

\* lines 385-421: the list is parsed and one task per entry is submitted
Precompute ==
    /\ pre.stage = "none"
    /\ \E requested \in RequestedLists :
       \E dl \in {DistList(requested)} :
          pre' = [pre EXCEPT !.stage = "collecting", !.dist_list = dl,
                             !.task = [i \in 1..Len(dl) |->
                                         IF i <= PoolCap THEN "running" ELSE "queued"],
                             !.next = 1]
    /\ UNCHANGED <<data, main_column, pc, req, df, mc, Qmax, fit, curve, band,
                   result, wk, wr>>

\* _compute_single_distribution, lines 334-349: the call returns
TaskSucceeds(i) ==
    /\ pre.stage = "collecting"
    /\ pre.task[i] = "running"
    /\ pre' = [pre EXCEPT !.task = Finished(pre.task, i, "success")]
    /\ UNCHANGED <<data, main_column, pc, req, df, mc, Qmax, fit, curve, band,
                   result, wk, wr>>

\* _compute_single_distribution, lines 350-359: the call raises
TaskFails(i) ==
    /\ pre.stage = "collecting"
    /\ pre.task[i] = "running"
    /\ pre' = [pre EXCEPT !.task = Finished(pre.task, i, "failure")]
    /\ UNCHANGED <<data, main_column, pc, req, df, mc, Qmax, fit, curve, band,
                   result, wk, wr>>

\* lines 423-432: one turn of the loop over the futures, in submission order
CollectFuture ==
    /\ pre.stage = "collecting"
    /\ pre.next <= Len(pre.dist_list)
    /\ pre.task[pre.next] \in {"success", "failure"}
    /\ LET dist_name == pre.dist_list[pre.next]
       IN  pre' = IF pre.task[pre.next] = "success"
                  THEN [pre EXCEPT !.results = @ \cup {dist_name},
                                   !.success_count = @ + 1,
                                   !.next = @ + 1]
                  ELSE [pre EXCEPT !.errors = @ \cup {dist_name},
                                   !.next = @ + 1]
    /\ UNCHANGED <<data, main_column, pc, req, df, mc, Qmax, fit, curve, band,
                   result, wk, wr>>

\* lines 434-464: status and summary
PrecomputeReturn ==
    /\ pre.stage = "collecting"
    /\ pre.next > Len(pre.dist_list)
    /\ pre' = [pre EXCEPT
                 !.stage = "returned",
                 !.status = IF pre.success_count = Len(pre.dist_list) THEN "success"
                            ELSE IF pre.success_count > 0 THEN "partial"
                            ELSE "error",
                 !.summary = [total   |-> Len(pre.dist_list),
                              success |-> pre.success_count,
                              failed  |-> Cardinality(pre.errors)]]
    /\ UNCHANGED <<data, main_column, pc, req, df, mc, Qmax, fit, curve, band,
                   result, wk, wr>>

NextPre ==
    \/ Precompute
    \/ \E i \in 1..Len(pre.task) : TaskSucceeds(i)
    \/ \E i \in 1..Len(pre.task) : TaskFails(i)
    \/ CollectFuture
    \/ PrecomputeReturn

SpecPre == InitPre /\ [][NextPre]_vars

----------------------------------------------------------------------------
(* Properties *)

RequestValid == ValidateRequest(req.dist, req.agg, req.method) = NoError

ClientError == result.kind = "http" /\ result.status = 400

\* number of finite positive values of a series
CountPositive(Q) == Cardinality({ i \in 1..Len(Q) : IsFinite(Q[i]) /\ Q[i] > 0 })

\* C1: a call whose aggregation function is outside {max, min, mean, sum} or
\* whose distribution is outside the nine registry keys ends in HTTP 400
\* without having read DataService.data or DataService.main_column, whatever
\* the DataService holds, and never returns a result.
C1_RejectedBeforeRead ==
    (pc # "idle" /\ (req.agg \notin {"max", "min", "mean", "sum"}
                     \/ req.dist \notin DistributionKeys))
    => (pc = "done" /\ ClientError /\ df = UnreadDF /\ mc = "unread")

C1_Witness ==
    /\ pc = "done" /\ req.dist = "weibull" /\ req.agg = "max"
    /\ ~data.none /\ ClientError /\ df = UnreadDF

\* C2: when the loaded series has fewer than three finite positive yearly
\* values, the call ends in HTTP 400, no parameter estimation has run and no
\* curve has been produced.
C2_InsufficientData ==
    (pc \notin {"idle", "aggregate"} /\ RequestValid /\ ~df.none /\ mc = df.col
       /\ CountPositive(AggregateByYear(df.rows, req.agg)) < 3)
    => (pc = "done" /\ ClientError /\ fit = NoFit /\ curve = NoCurve)

C2_Witness ==
    /\ pc = "done" /\ RequestValid /\ ~df.none
    /\ CountPositive(AggregateByYear(df.rows, req.agg)) = 2
    /\ ClientError /\ result.detail = "InsufficientData"

ThreeEqualPositive ==
    /\ Len(Qmax) = 3 /\ Qmax[1] > 0 /\ IsFinite(Qmax[1])
    /\ Qmax[2] = Qmax[1] /\ Qmax[3] = Qmax[1]

\* C3: a series of exactly three equal positive values fitted as gumbel with
\* method auto or mom ends in the DegenerateFit client error.
C3_DegenerateOnEqualValues ==
    (pc = "done" /\ req.dist = "gumbel" /\ req.method \in {"auto", "mom"}
       /\ ThreeEqualPositive)
    => (ClientError /\ result.detail = "DegenerateFit")

\* C4: whenever moments were selected and were inapplicable or delivered a
\* non-finite parameter the likelihood fit is tried next, and DegenerateFit
\* is raised only after the likelihood fit failed too.
C4_FallbackToLikelihood ==
    (pc \in {"curve", "band", "done"} /\ fit.use_mom)
    => /\ (fit.mom.kind = "none" \/ (fit.mom.kind = "params" /\ ~AllFinite(fit.mom.p)))
            => fit.mle_called
       /\ (result.detail = "DegenerateFit")
            => (fit.mle_called /\ fit.mle \in {"raise", "nonfinite"})

\* C5: with method auto the moments estimator is invoked exactly for gumbel,
\* with method mle never, and with method mom always and before any
\* likelihood fit.
C5_MethodSelection ==
    (pc \in {"curve", "band", "done"} /\ fit # NoFit)
    => /\ (req.method = "auto" => (fit.mom_called <=> req.dist = "gumbel"))
       /\ (req.method = "mle" => ~fit.mom_called)
       /\ (req.method = "mom" => (fit.mom_called
                                  /\ (fit.mle_called => fit.mom.kind = "none")))

C5_Witness ==
    /\ pc = "curve" /\ req.method = "mom" /\ req.dist = "pearson3"
    /\ fit.mom_called /\ fit.mle_called

\* the call got past the curve stage
CurveDone == curve.empirical_points # <<>>

Succeeded == result.kind = "ok" /\ FullKeys \subseteq result.keys

\* C9: when the filtered sample has fewer than 20 values or the distribution
\* is outside the bootstrap allow-list, no bootstrap iteration is started,
\* confidence_intervals is null, and the call that reached the band stage
\* returns successfully with all its other outputs.
C9_NoBootstrapWhenGated ==
    (CurveDone /\ (Len(Qmax) < 20 \/ req.dist \notin fast_distributions))
    => /\ ~band.started
       /\ band.ci_null
       /\ (pc = "done" => Succeeded)

C9_Witness ==
    /\ pc = "done" /\ Len(Qmax) = 19 /\ req.dist = "gumbel"
    /\ Succeeded /\ band.ci_null /\ ~band.started
    /\ Len(curve.theoretical_curve) >= MinCIPositions

\* C10 as stated: every successful call on at least 20 positive values with
\* an allow-listed distribution returns a non-null confidence_intervals.
C10_AlwaysBand ==
    (pc = "done" /\ Succeeded /\ Len(Qmax) >= 20 /\ req.dist \in fast_distributions)
    => ~band.ci_null

\* C10 amended: on at least 20 positive values with an allow-listed
\* distribution the returned confidence_intervals is non-null exactly when at
\* least 5 curve positions remain, at least one bootstrap iteration delivers
\* a row and at least 30 % of the positions stay valid after plausibility
\* filtering.
C10_BandUnlessUnusable ==
    (pc = "done" /\ Succeeded /\ Len(Qmax) >= 20 /\ req.dist \in fast_distributions)
    => (~band.ci_null <=> (/\ band.n_positions >= 5
                           /\ band.rows >= 1
                           /\ 10 * band.valid_count >= 3 * band.total_count))

C10_Witness ==
    /\ pc = "done" /\ Succeeded /\ Len(Qmax) >= 20 /\ req.dist = "gumbel"
    /\ ~band.ci_null /\ band.rows >= 1
    /\ band.valid_count < band.total_count
    /\ Len(band.lower) >= 2

\* C6: the returned theoretical_curve has strictly increasing P_percent, all
\* inside (0, 100), and every Q is finite and >= 0.
C6_CurveWellFormed ==
    LET tc == curve.theoretical_curve
    IN  \A i \in 1..Len(tc) :
           /\ tc[i].P_percent > 0 /\ tc[i].P_percent < 10000
           /\ IsFinite(tc[i].Q) /\ tc[i].Q >= 0
           /\ (i < Len(tc) => tc[i].P_percent < tc[i + 1].P_percent)

C6_Witness ==
    /\ pc = "band" /\ curve.direct
    /\ Len(curve.theoretical_curve) = Len(SamplePositions(NumPoints))
    /\ curve.num_clamped > 0
    /\ curve.theoretical_curve[Len(curve.theoretical_curve)].Q = 0
    /\ curve.theoretical_curve[1].Q > 0

\* C7: empirical_points has one point per filtered value; the i-th point has
\* P_percent = 100 i / (n + 1) and Q the i-th largest value of the series.
C7_EmpiricalPoints ==
    CurveDone =>
      LET ep == curve.empirical_points
          n  == Len(Qmax)
      IN  /\ Len(ep) = n
          /\ \A i \in 1..n :
                /\ ep[i].P_num * (n + 1) = 100 * i * ep[i].P_den
                /\ Cardinality({ j \in 1..n : Qmax[j] > ep[i].Q }) < i
                /\ Cardinality({ j \in 1..n : Qmax[j] >= ep[i].Q }) >= i

C7_Witness ==
    /\ CurveDone /\ Len(Qmax) = MinPoints
    /\ Qmax[1] < Qmax[2] /\ Qmax[3] < Qmax[2]
    /\ curve.empirical_points[1].Q = Qmax[2]
    /\ curve.empirical_points[1].P_num = 100

\* C8: in every non-null confidence_intervals, after all passes, for every
\* P_percent present in both the lower and the upper sequence the lower Q is
\* at most the upper Q.
C8_BandOrdered ==
    ~band.ci_null =>
      \A i \in 1..Len(band.lower), j \in 1..Len(band.upper) :
         band.lower[i].P_percent = band.upper[j].P_percent
            => FLe(band.lower[i].Q, band.upper[j].Q)

C8_Witness ==
    /\ pc = "done" /\ ~band.ci_null /\ req.dist = "lognorm"
    /\ Len(band.compacted) >= 3
    /\ Len(band.lower) > Len(band.compacted)
    /\ band.valid_count < band.total_count

\* C11: when the bootstrap was started and every iteration failed, or fewer
\* than 30 % of the restricted positions stay valid after plausibility
\* filtering, confidence_intervals is null and the call returns all its
\* other outputs without raising.
C11_UnusableBandIsNull ==
    (/\ pc = "done" /\ band.started
     /\ (band.rows = 0 \/ 10 * band.valid_count < 3 * band.total_count))
    => (band.ci_null /\ Succeeded)

C11_Witness ==
    /\ pc = "done" /\ band.started /\ band.rows >= 1
    /\ band.total_count >= MinCIPositions
    /\ 10 * band.valid_count < 3 * band.total_count
    /\ band.ci_null /\ Succeeded

\* iterations whose future was collected and delivered a row
Delivered ==
    { i \in 1..NBoot : /\ band.boot.taken[i]
                       /\ band.boot.outcome[i] = "returned"
                       /\ WorkerReturn(band.boot.seeds[i], band.ref) # NoRow }

Occurrences(rows, r) == Cardinality({ k \in 1..Len(rows) : rows[k] = r })

\* C12: in the pool path an iteration that failed, inside the worker or while
\* its future was collected, contributes no row; the rows aggregated are
\* exactly the rows of the other collected iterations, one each; and the
\* failure never reaches the caller: no HTTP error, and the call returns with
\* the band built from those rows.
C12_IterationFailuresIsolated ==
    band.boot.mode = "pool" =>
      /\ Len(band.boot.collected) = Cardinality(Delivered)
      /\ \A seed \in Seeds :
            LET r == WorkerReturn(seed, band.ref)
            IN  r # NoRow =>
                  Occurrences(band.boot.collected, r)
                    = Cardinality({ i \in Delivered :
                                      WorkerReturn(band.boot.seeds[i], band.ref) = r })
      /\ result.kind # "http"
      /\ (pc = "done" => (Succeeded /\ band.rows = Len(band.boot.collected)))

C12_Witness ==
    /\ pc = "done" /\ band.boot.mode = "pool" /\ Succeeded
    /\ \E i \in 1..NBoot : band.boot.outcome[i] = "raised"
    /\ Len(band.boot.collected) = 1 /\ band.rows = 1
    /\ ~band.ci_null

\* C13: a bootstrap worker that never finishes does not block the call:
\* once some iteration hangs, the call eventually completes (with that
\* iteration left out of the aggregation).
C13_HungIterationExcluded ==
    (\E i \in 1..NBoot : /\ band.boot.mode = "pool"
                         /\ band.boot.outcome[i] = "hung")
      ~> (pc = "done")

\* the band without the bookkeeping of the loop that produced its rows
BandOnly(b) == [b EXCEPT !.boot = NoBoot, !.ref = <<>>]

\* C14: when the pool cannot be created or the work cannot be submitted the
\* sequential loop runs the worker over the same seeds: each seed contributes
\* at most one row, the rows aggregated are as a multiset the rows the futures
\* of the pool would have delivered, and the band is the band of the pool
\* path for every completion order of its futures.
C14_SequentialFallbackEquivalent ==
    (band.boot.mode = "sequential" /\ pc \in {"percentiles", "done"}) =>
      /\ Len(band.boot.collected) <= NBoot
      /\ \A o \in Orders :
           \E rows \in { PoolRows(band.boot.seeds, band.ref, o, NBoot) } :
             /\ Len(rows) = Len(band.boot.collected)
             /\ \A k \in 1..Len(rows) :
                  Occurrences(rows, rows[k]) = Occurrences(band.boot.collected, rows[k])
             /\ pc = "done" =>
                  BandOnly(band) = BandOnly(BandFromRows(req.dist, Len(Qmax),
                                                         CIPositions(curve.P),
                                                         band.ref, rows))

C14_Witness ==
    /\ pc = "done" /\ band.boot.mode = "sequential" /\ Succeeded
    /\ Len(band.boot.collected) = NBoot
    /\ band.boot.collected[1] # band.boot.collected[NBoot]
    /\ ~band.ci_null

\* the rearrangements of a sequence of rows
Rearranged(rows) ==
    { [k \in 1..Len(rows) |-> rows[o[k]]] :
        o \in { f \in [1..Len(rows) -> 1..Len(rows)] :
                  \A i, j \in 1..Len(rows) : f[i] = f[j] => i = j } }

\* C15: the band depends only on the multiset of the rows collected: in
\* whatever order the futures of the pool completed, the finished band is
\* the band computed from any rearrangement of the collected rows, and every
\* collected row is the worker's value for its own seed alone.
C15_OrderInvariant ==
    (pc = "done" /\ band.boot.mode = "pool") =>
      /\ \A rows \in Rearranged(band.boot.collected) :
            BandOnly(band) = BandOnly(BandFromRows(req.dist, Len(Qmax),
                                                   CIPositions(curve.P),
                                                   band.ref, rows))
      /\ \A k \in 1..Len(band.boot.collected) :
            \E i \in Delivered :
               band.boot.collected[k] = WorkerReturn(band.boot.seeds[i], band.ref)

C15_Witness ==
    /\ pc = "done" /\ band.boot.mode = "pool" /\ Succeeded
    /\ Len(band.boot.collected) = NBoot
    /\ band.boot.collected[1] = WorkerReturn(band.boot.seeds[2], band.ref)
    /\ band.boot.collected[1] # WorkerReturn(band.boot.seeds[1], band.ref)
    /\ ~band.ci_null

CurveDelivered == pc \in {"band", "done"} /\ ~curve.raised /\ curve.P # <<>>

\* C17: once the curve and its warnings are computed, the implausible-fit
\* warning is among quality_warnings exactly when the fitted quantile at 1 %
\* exceedance does not exceed the largest value of the series.
C17_ImplausibleFitWarned ==
    CurveDelivered =>
      (("implausible_fit" \in curve.quality_warnings)
         <=> ~FGt(curve.Q_1pct, SeqMax(Qmax)))

\* np.min of an empty aggregate raised ValueError inside the try of line 354
AggregationRaised ==
    /\ RequestValid /\ ~df.none /\ df.rows # <<>> /\ mc = df.col
    /\ FiniteOnly(AggregateByYear(df.rows, req.agg)) = <<>>

\* dist.fit or the moments estimator raised inside the try of line 451
FitRaised == fit.mle = "raise" \/ fit.mom.kind = "raise"

ServerError == result.kind = "http" /\ result.status = 500

\* C18 as stated: a finished call during which any exception other than an
\* HTTPException was raised, wherever in the body, ended in HTTP 500.
C18_AnyFaultIs500 ==
    (pc = "done" /\ (AggregationRaised \/ FitRaised \/ curve.raised
                       \/ band.internal_error))
    => ServerError

\* C18 amended: a finished call ended in exactly one of a result and an
\* HTTP error that carries no output; an exception no inner handler catches
\* became HTTP 500 and HTTP 500 has no other origin; an exception raised
\* while aggregating or estimating became HTTP 400; an exception inside the
\* confidence-interval block left the call successful with a null band; and
\* the HTTP 400 of validation and of the column check came out unchanged.
C18_FaultsHandled ==
    pc = "done" =>
      /\ result.kind \in {"ok", "http"}
      /\ (result.kind = "http" => result.keys = {})
      /\ (result.kind = "ok" => (result.status = 200 /\ result.keys # {}))
      /\ (curve.raised => ServerError)
      /\ (ServerError => curve.raised)
      /\ ((AggregationRaised \/ FitRaised) => ClientError)
      /\ (band.internal_error => (Succeeded /\ band.ci_null))
      /\ (~RequestValid =>
            (ClientError
               /\ result.detail = ValidateRequest(req.dist, req.agg, req.method).detail))
      /\ ((RequestValid /\ ~df.none /\ df.rows # <<>> /\ mc # df.col) =>
            (ClientError /\ result.detail = "MissingColumn"))

C18_Witness ==
    /\ pc = "done" /\ curve.raised /\ ServerError /\ result.keys = {}
    /\ ~FitRaised /\ RequestValid

SixOutputs ==
    {"theoretical_curve", "empirical_points", "confidence_intervals",
     "statistics", "parameters", "quality_warnings"}

\* C19: every call that ended without an error, whatever the DataService
\* held, returned all six outputs.
C19_AllSixOutputs ==
    (pc = "done" /\ result.kind = "ok") => SixOutputs \subseteq result.keys

\* C20: no step of a call, from its entry to the delivery of its result or
\* error, changes DataService.data or DataService.main_column, and the frame
\* and column a call has read are the ones the DataService holds; so a
\* second call, with no upload or clear in between, works on the same series.
C20_CallLeavesDataService ==
    [][(pc # "idle" \/ pc' # "idle") =>
         /\ UNCHANGED <<data, main_column>>
         /\ (df' # UnreadDF => (df' = data' /\ mc' = main_column'))]_vars

C20_Witness ==
    /\ pc = "done" /\ Succeeded
    /\ ~data.none /\ data.rows # <<>>
    /\ df = data /\ mc = main_column
    /\ Qmax # <<>>

\* C21: whatever the distribution and the fitting path, every quantile that
\* was computed finite and negative is in theoretical_curve with Q = 0 and
\* is counted by the clamp counter, and a sampled position is missing from
\* the curve only if its quantile was non-finite or above the extreme limit.
C21_NegativeKeptAsZero ==
    (~curve.raised /\ curve.Q_raw # <<>>) =>
      LET P   == SamplePositions(NumPoints)
          raw == curve.Q_raw
          tc  == curve.theoretical_curve
          neg == { i \in 1..Len(raw) : IsFinite(raw[i]) /\ FLt(raw[i], 0) }
      IN  /\ \A i \in neg : \E k \in 1..Len(tc) : tc[k] = Point(P[i], 0)
          /\ curve.num_clamped = Cardinality(neg)
          /\ \A i \in 1..Len(raw) :
                (\A k \in 1..Len(tc) : tc[k].P_percent # P[i])
                   => (~IsFinite(raw[i]) \/ FGt(raw[i], ExtremeQ))

\* the quantiles of the row the worker computed that are non-finite,
\* non-positive or outside the ratio band around the reference
BadQuantiles ==
    { i \in 1..RowLen :
        \/ ~IsFinite(wk.bq[i])
        \/ ~FGt(wk.bq[i], 0)
        \/ 1000 * wk.bq[i] < MinRatioMilli(wk.dist) * wk.ref[i]
        \/ wk.bq[i] > MaxRatio(wk.dist) * wk.ref[i] }

\* C22: with a reference curve, the worker returns no row exactly when more
\* than the distribution's threshold (30 % gumbel, 10 % otherwise) of the
\* quantiles it computed are non-finite, non-positive or outside the ratio
\* band; so every row it returns is within the threshold.
C22_DiscardOverThreshold ==
    (wk.stage = "done" /\ ~wk.raised /\ wk.has_ref) =>
      ((wk.out = NoRow)
         <=> 100 * Cardinality(BadQuantiles) > OutlierThresholdPct(wk.dist) * RowLen)

\* a series of three values with non-zero sample skewness: the middle value
\* is not the midpoint of the other two
SkewedTriple(Q) ==
    /\ Len(Q) = 3
    /\ \A i \in 1..3 : IsFinite(Q[i]) /\ Q[i] < HugeVal
    /\ 3 * SeqMax(Q) + 3 * SeqMin(Q) # 2 * (Q[1] + Q[2] + Q[3])

\* C23: the moments estimator, when it is called, delivers parameters
\* exactly for the two-parameter location/scale families (gumbel, logistic,
\* expon) and for pearson3 on a series whose sample skewness is not zero
\* (checked on series of three values), and reports not-applicable otherwise.
C23_MomentsFamilies ==
    (pc \in {"curve", "band", "done"} /\ fit.mom_called) =>
      ((fit.mom.kind = "params")
         <=> \/ req.dist \in {"gumbel", "logistic", "expon"}
             \/ (req.dist = "pearson3" /\ SkewedTriple(Qmax)))

\* C24: after the width-floor pass of a gumbel band, at every position whose
\* reference quantile is finite and positive and whose bounds are finite the
\* band is at least 30 % of the reference wide, and where the pass changed
\* the band the lower bound is at most 85 % and the upper bound at least
\* 115 % of the reference (bounds on the model's grid of whole units, so
\* each comparison is up to one unit).
C24_WidthFloor ==
    (band.started /\ req.dist = "gumbel" /\ band.has_ref /\ band.floored # <<>>) =>
      \A i \in 1..Len(band.floored) :
         LET theo == band.ref[i]
             lo   == band.floored[i][1]
             up   == band.floored[i][2]
         IN  (FGt(theo, 0) /\ IsFinite(theo) /\ IsFinite(lo) /\ IsFinite(up)) =>
               /\ (up - lo + 1) * 100 > 30 * theo
               /\ band.floored[i] # band.percentiles[i] =>
                    (lo * 100 <= 85 * theo /\ (up + 1) * 100 > 115 * theo)

C24_Witness ==
    /\ pc = "done" /\ req.dist = "gumbel" /\ band.has_ref /\ ~band.ci_null
    /\ \E i \in 1..Len(band.floored) :
          /\ IsFinite(band.percentiles[i][1]) /\ IsFinite(band.percentiles[i][2])
          /\ band.floored[i][1] < band.percentiles[i][1]
          /\ band.floored[i][2] > band.percentiles[i][2]
    /\ \E i \in 1..Len(band.floored) :
          /\ IsFinite(band.percentiles[i][1])
          /\ band.floored[i] = band.percentiles[i]


\* the zones a position belongs to (lines 1003-1006)
ZonesOf(p, n) ==
    { z \in {"interpolation", "near", "far"} :
        \/ z = "interpolation" /\ is_interpolation(p, n)
        \/ z = "near" /\ is_near_extrapolation(p, n)
        \/ z = "far" /\ is_far_extrapolation(p, n) }

\* the ceilings of the three zones, in tenths: 250 %, 600 %, 800 %
ZoneCeiling(z) ==
    CASE z = "interpolation" -> 25 [] z = "near" -> 60 [] z = "far" -> 80

\* relative_width <= ceiling as line 1037 computes the left side,
\* (width / theo) * 100: NaN or infinite where theo is NaN or 0
WithinCeiling(theo, b, ceiling) ==
    IF ~IsFinite(theo) \/ theo = 0 THEN FALSE
    ELSE IF FGt(theo, 0) THEN (b[2] - b[1]) * 10 <= ceiling * theo
    ELSE b[2] - b[1] >= 0

\* every position is in exactly one zone and the interpolation ceiling is
\* below the two others
ZonesPartition ==
    /\ \A i \in 1..Len(band.P) : Cardinality(ZonesOf(band.P[i], Len(Qmax))) = 1
    /\ ZoneCeiling("interpolation") < ZoneCeiling("near")
    /\ ZoneCeiling("interpolation") < ZoneCeiling("far")

InterpCount(pts, n) ==
    Cardinality({ i \in 1..Len(pts) : is_interpolation(pts[i].P_percent, n) })

\* C26: whenever adaptive sampling runs, the first and the last point are
\* retained and the stride applied to the interpolation zone is not larger
\* than the strides applied to the near and the far extrapolation zone
C26_InterpolationDensest ==
    (pc = "sampled" /\ Len(band.temp) > CompactOver) =>
       /\ band.compacted[1] = band.temp[1]
       /\ band.compacted[Len(band.compacted)] = band.temp[Len(band.temp)]
       /\ InterpStep(InterpCount(band.temp, Len(Qmax))) <= NearStride
       /\ InterpStep(InterpCount(band.temp, Len(Qmax))) <= FarStride

\* gap interpolation ran on the band (lines 1181-1196)
GapFillRan ==
    /\ pc = "done" /\ band.started /\ ~band.ci_null
    /\ Len(band.compacted) > 2 /\ HasGap(band.compacted)

\* C27: when gap interpolation runs, every position that was in the band
\* before the pass is in the returned band with the same lower and upper value
C27_GapFillOnlyAdds ==
    GapFillRan =>
      \A k \in 1..Len(band.compacted) :
         \E j \in 1..Len(band.lower) :
            /\ band.lower[j] = Point(band.compacted[k].P_percent, band.compacted[k].lower)
            /\ band.upper[j] = Point(band.compacted[k].P_percent, band.compacted[k].upper)

\* C28: every point of a returned band lies in the display range
\* [0.01 %, 99.99 %] and between the smallest and the largest position the
\* band had before gap interpolation
C28_BandInsideRange ==
    (pc = "done" /\ band.started /\ ~band.ci_null /\ band.compacted # <<>>) =>
      \A j \in 1..Len(band.lower) :
         LET p == band.lower[j].P_percent
         IN  /\ band.upper[j].P_percent = p
             /\ min_p <= p /\ p <= max_p
             /\ band.compacted[1].P_percent <= p
             /\ p <= band.compacted[Len(band.compacted)].P_percent

\* C29: under every interleaving of compute_frequency_curve with upload_file,
\* upload_manual, analyze_rainfall and clear_data, the (data, main_column)
\* pair the request has read is the pair of one single load or clear
C29_PairFromOneLoad ==
    pc = "read" => <<df, mc>> \in wr.loads

\* C30: for every requested list, repeated names included, and every pattern
\* of successes and failures, the summary of precompute_all_distributions has
\* success + failed = total and every requested distribution is in exactly
\* one of results and errors
C30_SummaryAddsUp ==
    pre.stage = "returned" =>
       /\ pre.summary.success + pre.summary.failed = pre.summary.total
       /\ \A i \in 1..Len(pre.dist_list) :
             (pre.dist_list[i] \in pre.results) # (pre.dist_list[i] \in pre.errors)
============================================================================
